---------------------------- MODULE Spec2Model ----------------------------
(***************************************************************************)
(* Verification model of the MCP-UI bridge of mcp-observability:           *)
(*   - MCPUIResourceRenderer (height negotiation, message handling,        *)
(*     probe injection, effect cleanup, action forwarding),                *)
(*   - MCPResourceProvider (the resource store),                           *)
(*   - the action handlers of MCPResourceDisplay / MCPUIArtifact,          *)
(*   - detectMCPUIResource (the tool-output detector).                     *)
(*                                                                         *)
(* Heights are integers counting HALF pixels wherever the code handles a   *)
(* raw sample (so that Math.ceil is a real conversion); the React state    *)
(* iframeHeight counts whole pixels.  A JavaScript null is the empty set   *)
(* and a value v is the singleton {v}.                                     *)
(***************************************************************************)
EXTENDS Integers, Sequences, FiniteSets, TLC

VARIABLES
    \* ---- one MCPUIResourceRenderer instance ----
    phase,             \* "init" | "mounted" | "unmounted"
    resource,          \* the resource prop
    iframeHeight,      \* useState<number>(150), whole pixels
    isLoaded,          \* useState(false)
    rafRef,            \* {} or {1}: handle of the pending commit frame callback
    pendingHeightRef,  \* {} or {h}: pending candidate, half pixels
    listening,         \* window 'message' listener and MutationObserver attached
    dom,               \* iframes inside the wrapper, in document order
    docs,              \* iframe -> [cross, ready, probes]: its current document
    directIframeRef,   \* {} or {iframe}
    trackedIframesRef, \* sequence of iframes
    iframeObserversRef,\* iframes that have a connected ResizeObserver
    loadHandlers,      \* sequence of <<iframe, resource>>: attached loadHandler closures
    delayedScans,      \* resources captured by pending setTimeout(..., 500) closures
    settleLeft,        \* measurements the pending settleProbe chain still makes
    styleHeight,       \* {} or {h}: style.height written to the tracked iframe, pixels
    commitFrames,      \* commit frame callbacks the browser holds (requested, not run, not cancelled)
    arrivedMax,        \* history: {} or {largest sample handed to scheduleHeightCommit
                       \* since the candidate was last cleared}, half pixels
    \* ---- the document shown in the iframe ----
    content,           \* how the document's height depends on the height of its viewport
    \* ---- the other components that create an iframe ----
    sandboxes,         \* component -> {} or {tokens}: sandbox of the iframe it has created
    \* ---- MCPUIRenderer (MCPUIDetector.tsx) and its blob URLs ----
    blobPhase,         \* "init" | "mounted" | "unmounted"
    blobProps,         \* the resource prop: [text, uri, name]
    blobCreated,       \* URL.createObjectURL calls made; the urls are 1..blobCreated
    blobLive,          \* the urls created and not revoked
    iframeContent,     \* {} or {url}: the memoized url, the iframe's src while mounted
    \* ---- MCPUIArtifact ----
    artifact,          \* {} (not mounted) or {the artifact prop}
    artResource,       \* useState(null): {} or {the resource}
    artError,          \* useState(null): whether the error message is set
    \* ---- applyHeight / scheduleHeightCommit on a given run of samples ----
    foldInput,         \* the samples, in arrival order (half pixels)
    foldLeft,          \* the samples that have not arrived yet
    fold,              \* [height, loaded, raf, pending, frames, arrived]: the cells used
    \* ---- MCPResourceProvider ----
    resources,         \* useState<Map>: uri -> {} or {resource}, as of the last render
    storeUpdates,      \* state updaters queued by setResources, oldest first
    firstAdded,        \* history: uri -> first resource handed to addResource since a clear
    \* ---- MCPUILink, a consumer of the store ----
    linkHref,          \* {} (no link mounted) or {href of the mounted link}
    linkResource,      \* useMemo(() => getResource(href)) of the link's last render
    linkOpen,          \* useState(false): isOpen
    linkNotified,      \* history: renders of the link caused by a change of the context
    \* ---- ToolCallInfo views, consumers of the store ----
    viewMounted,       \* view -> whether it is mounted
    viewResource,      \* view -> {} or {resource}: what detectMCPUIResource found in its output
    viewEffect,        \* view -> whether its store effect has to run (mount, or a dependency changed)
    addCalls,          \* history: uri -> addResource calls made by the views' effects
    \* ---- action forwarding ----
    onUIActionProp,    \* whether the host passed a callback to the component
    calls,             \* the actions handled so far, each with what became of it
    opened,            \* number of window.open calls made
    \* ---- detectMCPUIResource ----
    detOrigin,         \* what the output was made from: a JSON value, or not JSON
    detInput,          \* the output argument: null, undefined or a string (its tokens)
    detResult,         \* what the call returned, or that it threw
    detPc,             \* "ready" | "done"
    \* ---- detectMCPUIResources / extractMCPUIFromMessage ----
    extracted,         \* what the call returned: the artifacts, or that it threw
    artPc,             \* "ready" | "done"
    \* ---- the /api/mcp route of mcp-chat-ui ----
    serverConfigs,     \* id -> {} or {config}: the module's Map
    connecting,        \* configs of the POST requests awaiting their test connection
    response           \* history: method and status of the request answered last

renderVars == <<phase, resource, iframeHeight, isLoaded, rafRef, pendingHeightRef,
                listening, dom, docs, directIframeRef, trackedIframesRef,
                iframeObserversRef, loadHandlers, delayedScans, settleLeft, styleHeight,
                commitFrames, arrivedMax>>

linkVars == <<linkHref, linkResource, linkOpen, linkNotified>>

viewVars == <<viewMounted, viewResource, viewEffect, addCalls>>

storeVars == <<resources, storeUpdates, firstAdded, linkVars, viewVars>>

actionVars == <<onUIActionProp, calls, opened>>

detectVars == <<detOrigin, detInput, detResult, detPc, extracted, artPc>>

layoutVars == <<content>>

sandboxVars == <<sandboxes>>

artifactVars == <<artifact, artResource, artError>>

foldVars == <<foldInput, foldLeft, fold>>

blobVars == <<blobPhase, blobProps, blobCreated, blobLive, iframeContent>>

configVars == <<serverConfigs, connecting, response>>

vars == <<renderVars, storeVars, actionVars, detectVars, layoutVars, sandboxVars,
          artifactVars, foldVars, blobVars, configVars>>

\* What the steps of one component leave alone.
notRenderVars == <<storeVars, actionVars, detectVars, layoutVars, sandboxVars, artifactVars,
    foldVars, blobVars, configVars>>
notStoreVars == <<renderVars, actionVars, detectVars, layoutVars, sandboxVars, artifactVars,
    foldVars, blobVars, configVars>>
notActionVars == <<renderVars, storeVars, detectVars, layoutVars, sandboxVars, artifactVars,
    foldVars, blobVars, configVars>>
notDetectVars == <<renderVars, storeVars, actionVars, layoutVars, sandboxVars, artifactVars,
    foldVars, blobVars, configVars>>
notSandboxVars == <<renderVars, storeVars, actionVars, detectVars, layoutVars, artifactVars,
    foldVars, blobVars, configVars>>
notArtifactVars == <<renderVars, storeVars, actionVars, detectVars, layoutVars, sandboxVars,
    foldVars, blobVars, configVars>>
notFoldVars == <<renderVars, storeVars, actionVars, detectVars, layoutVars, sandboxVars,
    artifactVars, blobVars, configVars>>
notBlobVars == <<renderVars, storeVars, actionVars, detectVars, layoutVars, sandboxVars,
    artifactVars, foldVars, configVars>>
notConfigVars == <<renderVars, storeVars, actionVars, detectVars, layoutVars, sandboxVars,
    artifactVars, foldVars, blobVars>>

----------------------------------------------------------------------------
(* Values                                                                  *)

Null == {}
Some(v) == {v}
The(s) == CHOOSE v \in s : TRUE

Max(a, b) == IF a >= b THEN a ELSE b

\* useState<number>(150)
PlaceholderHeight == 150
\* resource?.height || resource?.metadata?.height || 600
DefaultFallbackHeight == 600
\* settleProbe(8, 0) and settleProbe(6, 50)
InitialSettleFrames == 8
DelayedSettleFrames == 6

\* Resources the host may pass as the resource prop.  height / metaHeight are
\* resource.height and resource.metadata.height in pixels, 0 when absent.
ResourceA == [uri |-> "ui://a", height |-> 0, metaHeight |-> 0]
ResourceB == [uri |-> "ui://b", height |-> 100, metaHeight |-> 900]
Resources == {ResourceA, ResourceB}

Iframes == {"f1"}

\* Raw height samples in half pixels: -0.5px, 120px, 199.5px, 700px.
SampleValues == {-1, 240, 399, 1400}

SeqToSet(s) == {s[k] : k \in 1..Len(s)}

Remove(s, x) == SelectSeq(s, LAMBDA y : y # x)

BlankDoc == [cross |-> FALSE, ready |-> TRUE, probes |-> 0]

----------------------------------------------------------------------------
(* Pure helpers of the component                                           *)

\* Math.ceil of a half-pixel count, in pixels.
Ceil(h) == (h + 1) \div 2

\* A commit that takes the candidate whatever the displayed height is.
ApplyHeightLast(prev, h) ==
    Max(0, Ceil(h))

\* applyHeight: next = max(0, ceil(h)); setIframeHeight(prev => next > prev ? next : prev)
ApplyHeight(prev, h) ==
    LET next == Max(0, Ceil(h)) IN IF next > prev THEN next ELSE prev

\* pendingHeightRef.current = Math.max(pendingHeightRef.current ?? 0, h)
FoldPending(pending, h) ==
    Some(Max(IF pending = Null THEN 0 ELSE The(pending), h))

\* resource?.height || resource?.metadata?.height || 600
FallbackHeight(r) ==
    IF r.height # 0 THEN r.height
    ELSE IF r.metaHeight # 0 THEN r.metaHeight
    ELSE DefaultFallbackHeight

\* iframe.contentWindow: the iframe's window while it is in the document, else null
ContentWindow(d, f) == IF f \in SeqToSet(d) THEN Some(f) ELSE Null

----------------------------------------------------------------------------
(* The mutable cells an effect or callback works on, as one record, so that *)
(* a handler is the composition of the functions it calls.                  *)

Cur ==
    [height |-> iframeHeight, loaded |-> isLoaded, raf |-> rafRef,
     pending |-> pendingHeightRef, docs |-> docs, tracked |-> trackedIframesRef,
     observers |-> iframeObserversRef, handlers |-> loadHandlers,
     style |-> styleHeight, frames |-> commitFrames, arrived |-> arrivedMax]

\* React drops state updates of a component that is no longer mounted; refs
\* and DOM objects are plain mutable objects and keep every write.  When
\* iframeHeight changes the component renders again and the effect of lines
\* 105-116 writes the new height to the style of the tracked iframes.
Store(s) ==
    /\ iframeHeight' = IF phase = "unmounted" THEN iframeHeight ELSE s.height
    /\ isLoaded' = IF phase = "unmounted" THEN isLoaded ELSE s.loaded
    /\ rafRef' = s.raf
    /\ pendingHeightRef' = s.pending
    /\ docs' = s.docs
    /\ trackedIframesRef' = s.tracked
    /\ iframeObserversRef' = s.observers
    /\ loadHandlers' = s.handlers
    /\ styleHeight' = IF phase # "unmounted" /\ s.height # iframeHeight /\ s.tracked # <<>>
                       THEN Some(s.height) ELSE s.style
    /\ commitFrames' = s.frames
    /\ arrivedMax' = s.arrived

\* scheduleHeightCommit without the test of rafRef: every sample requests a
\* frame callback of its own.
ScheduleHeightCommitUnguarded(s, h) ==
    [s EXCEPT !.pending = FoldPending(s.pending, h),
              !.raf = Some(1),
              !.frames = @ + 1,
              !.arrived = IF @ = Null THEN Some(h) ELSE Some(Max(The(@), h))]

\* scheduleHeightCommit(h): fold h into the candidate; request a frame
\* callback unless one is pending.
ScheduleHeightCommit(s, h) ==
    [s EXCEPT !.pending = FoldPending(s.pending, h),
              !.raf = IF s.raf # Null THEN s.raf ELSE Some(1),
              !.frames = IF s.raf # Null THEN @ ELSE @ + 1,
              !.arrived = IF @ = Null THEN Some(h) ELSE Some(Max(The(@), h))]

\* A frame callback that clears handle and candidate and commits nothing.
CommitFrameDropping(s) ==
    [s EXCEPT !.raf = Null, !.pending = Null, !.frames = @ - 1, !.arrived = Null]

\* The callback handed to requestAnimationFrame, lines 35-43: take the
\* candidate, clear handle and candidate, commit the candidate if there is one.
CommitFrame(s) ==
    LET ph == s.pending
        s0 == [s EXCEPT !.raf = Null, !.pending = Null,
                        !.frames = @ - 1, !.arrived = Null]
    IN  IF ph # Null
        THEN [s0 EXCEPT !.height = ApplyHeight(@, The(ph)), !.loaded = TRUE]
        ELSE s0

\* attachIframeObservers: disconnect the observers of iframes no longer
\* tracked, observe every tracked iframe that has none.
AttachIframeObservers(s) ==
    LET set == SeqToSet(s.tracked)
        kept == {f \in s.observers : f \in set}
    IN  [s EXCEPT !.observers = kept \cup {f \in set : f \notin kept}]

\* refreshTrackedIframes: if (!wrapperRef.current) return; list = the wrapper's
\* iframes; unshift directIframeRef.current when it is not among them.
RefreshTrackedIframes(s, wrapper, d, direct) ==
    IF ~wrapper THEN s
    ELSE LET list == IF direct # Null /\ The(direct) \notin SeqToSet(d)
                     THEN <<The(direct)>> \o d ELSE d
         IN  AttachIframeObservers([s EXCEPT !.tracked = list])

\* attemptInjection without the test for the marker (lines 179-182).
AttemptInjectionUnmarked(s, d, f, r) ==
    IF f \notin SeqToSet(d) THEN s
    ELSE IF s.docs[f].cross THEN [s EXCEPT !.height = FallbackHeight(r)]
    ELSE [s EXCEPT !.docs[f].probes = @ + 1, !.loaded = TRUE]

\* attemptInjection for iframe f, in a closure that captured resource r.
\*   detached iframe: contentDocument and contentWindow are null -> return;
\*   cross-origin document: contentWindow.document throws -> catch -> fallback;
\*   marker present -> return; else append the probe script, setIsLoaded(true).
AttemptInjection(s, d, f, r) ==
    IF f \notin SeqToSet(d) THEN s
    ELSE IF s.docs[f].cross THEN [s EXCEPT !.height = FallbackHeight(r)]
    ELSE IF s.docs[f].probes > 0 THEN s
    ELSE [s EXCEPT !.docs[f].probes = @ + 1, !.loaded = TRUE]

\* iframe.addEventListener('load', loadHandler): the cleanup function that
\* injectHeightDetector returns is dropped by every caller, so the handler
\* stays.  A closure equal to one already attached (same iframe, same captured
\* resource) behaves identically; it is kept once, at its latest position.
AddLoadHandler(handlers, f, r) == Append(Remove(handlers, <<f, r>>), <<f, r>>)

\* injectHeightDetector(iframe): inject now if the document is readable and
\* complete, and attach the load handler.
InjectHeightDetector(s, d, f, r) ==
    LET now == IF f \in SeqToSet(d) /\ ~s.docs[f].cross /\ s.docs[f].ready
               THEN AttemptInjection(s, d, f, r) ELSE s
    IN  [now EXCEPT !.handlers = AddLoadHandler(now.handlers, f, r)]

\* iframes.forEach(injectHeightDetector)
RECURSIVE InjectAll(_, _, _, _)
InjectAll(s, d, list, r) ==
    IF list = <<>> THEN s
    ELSE InjectAll(InjectHeightDetector(s, d, Head(list), r), d, Tail(list), r)

\* measure() of settleProbe: ifr = trackedIframesRef.current[0]; h is what the
\* box and (when readable) the document measure; if (h) scheduleHeightCommit(h).
\* A detached iframe measures 0.
Measure(s, d, h) ==
    IF s.tracked = <<>> THEN s
    ELSE IF Head(s.tracked) \notin SeqToSet(d) THEN s
    ELSE IF h = 0 THEN s
    ELSE ScheduleHeightCommit(s, h)

\* What a box or document measurement can yield (half pixels, never negative).
MeasuredValues == {0} \cup {v \in SampleValues : v > 0}

\* The body of the effect keyed on [resource], lines 120-369, once the wrapper
\* exists: listener and MutationObserver on, refresh, inject into existing
\* iframes, refresh, settleProbe(8, 0) (its first measurement is synchronous).
EffectBody(s, d, direct, r, h) ==
    LET s1 == RefreshTrackedIframes(s, TRUE, d, direct)
        s2 == InjectAll(s1, d, d, r)
        s3 == RefreshTrackedIframes(s2, TRUE, d, direct)
    IN  Measure(s3, d, h)

\* The cleanup of that effect, lines 371-380.
\* cancelAnimationFrame(rafRef.current) takes the callback from the browser.
Cleanup(s) ==
    [s EXCEPT !.raf = Null, !.pending = Null, !.observers = {},
              !.frames = IF s.raf # Null THEN @ - 1 ELSE @,
              !.arrived = Null]

----------------------------------------------------------------------------
(* Cross-context messages                                                  *)

\* event.source: one of the instance's iframes, or a window that is none of
\* them (another RenderInstance's iframe, the page itself, a popup).
Sources == Iframes \cup {"other"}

HeightTypes == {"mcp-ui-height-update", "ui-size-change", "mcp-ui:size"}
MessageTypes == HeightTypes \cup {"mcp-ui-action", "mcp-ui-resize"}

\* The value found in the height field: a number (half pixels) or not one.
HeightFields ==
    [k : {"num"}, v : SampleValues]
        \cup [k : {"NaN", "Infinity", "string", "missing"}, v : {0}]

\* The value found in the fields the handler falls back to when the height
\* field is missing (size.height, innerHeight, contentHeight, in that order),
\* looked up in the object payload points to.
FallbackFields ==
    [k : {"num"}, v : {240}] \cup [k : {"string", "missing"}, v : {0}]

\* event.data: its type, whether it has a payload object, whether the
\* height field sits in the payload or flat on the message, and what the
\* fallback fields hold.
MessageData ==
    [type : HeightTypes, hasPayload : BOOLEAN, where : {"payload", "flat"},
     height : HeightFields, alt : {[k |-> "missing", v |-> 0]}]
        \cup [type : HeightTypes, hasPayload : BOOLEAN, where : {"flat"},
              height : {[k |-> "missing", v |-> 0]},
              alt : FallbackFields \ {[k |-> "missing", v |-> 0]}]
        \cup [type : MessageTypes \ HeightTypes, hasPayload : {FALSE}, where : {"flat"},
              height : [k : {"num"}, v : SampleValues],
              alt : {[k |-> "missing", v |-> 0]}]

\* A handler that reads the height from the payload object only.
NewHeightPayloadOnly(data) ==
    IF data.hasPayload /\ data.where = "payload" THEN data.height
    ELSE [k |-> "missing", v |-> 0]

\* payload = event.data?.payload ?? event.data;
\* newHeight = payload?.height ?? payload?.size?.height ?? payload?.innerHeight
\*             ?? payload?.contentHeight
\* The height field is found only where payload points; ?? moves on only
\* when the field is missing (null or undefined), not when it is NaN or text.
NewHeight(data) ==
    LET payloadIs == IF data.hasPayload THEN "payload" ELSE "flat"
        height == IF data.where = payloadIs THEN data.height
                  ELSE [k |-> "missing", v |-> 0]
    IN  IF height.k # "missing" THEN height ELSE data.alt

\* The test without isFinite: typeof NaN and typeof Infinity are 'number'.
IsTypeofNumber(x) == x.k \in {"num", "NaN", "Infinity"}

\* typeof newHeight === 'number' && isFinite(newHeight)
IsFiniteNumber(x) == x.k = "num"

\* fromIframe = iframes.some(f => f.contentWindow === event.source)
FromIframe(tracked, d, source) ==
    \E k \in 1..Len(tracked) : ContentWindow(d, tracked[k]) = Some(source)

\* if (!fromIframe && iframes.length > 0) return;
SourceRejected(tracked, d, source) ==
    ~FromIframe(tracked, d, source) /\ Len(tracked) > 0

\* handleMessage(event), lines 125-147
HandleMessageOn(s, d, source, data) ==
    IF SourceRejected(s.tracked, d, source) THEN s
    ELSE IF data.type \in HeightTypes /\ IsFiniteNumber(NewHeight(data))
         THEN ScheduleHeightCommit(s, NewHeight(data).v)
         ELSE s

----------------------------------------------------------------------------
(* Actions of the renderer instance                                        *)

RenderInit ==
    /\ phase = "init"
    /\ resource \in Resources
    /\ iframeHeight = PlaceholderHeight
    /\ isLoaded = FALSE
    /\ rafRef = Null
    /\ pendingHeightRef = Null
    /\ listening = FALSE
    /\ dom = <<>>
    /\ docs = [f \in Iframes |-> BlankDoc]
    /\ directIframeRef = Null
    /\ trackedIframesRef = <<>>
    /\ iframeObserversRef = {}
    /\ loadHandlers = <<>>
    /\ delayedScans = {}
    /\ settleLeft = 0
    /\ styleHeight = Null
    /\ commitFrames = 0
    /\ arrivedMax = Null

\* First commit of the component: the wrapper div exists, UIResourceRenderer
\* may already have rendered its iframe (d), the effect runs.
Mount ==
    /\ phase = "init"
    /\ \E d \in {<<>>} \cup {<<f>> : f \in Iframes}, h \in MeasuredValues,
          direct \in BOOLEAN :
        LET ref == IF direct /\ d # <<>> THEN Some(Head(d)) ELSE Null
        IN  /\ dom' = d
            /\ directIframeRef' = ref
            /\ Store(EffectBody(Cur, d, ref, resource, h))
    /\ phase' = "mounted"
    /\ listening' = TRUE
    /\ settleLeft' = InitialSettleFrames - 1
    /\ delayedScans' = {resource}
    /\ UNCHANGED resource
    /\ UNCHANGED notRenderVars

\* The host passes a resource of another identity to the mounted component:
\* the effect's cleanup runs, then the effect runs again.  useState keeps
\* iframeHeight and isLoaded.
ChangeResource ==
    /\ phase = "mounted"
    /\ \E r \in Resources \ {resource}, h \in MeasuredValues :
        /\ resource' = r
        /\ Store(EffectBody(Cleanup(Cur), dom, directIframeRef, r, h))
        /\ delayedScans' = delayedScans \cup {r}
    /\ listening' = TRUE
    /\ settleLeft' = Max(settleLeft, InitialSettleFrames - 1)
    /\ UNCHANGED <<phase, dom, directIframeRef>>
    /\ UNCHANGED notRenderVars

\* The component is removed: React detaches the wrapper (wrapperRef.current
\* and the iframe ref become null, the iframes leave the document) and runs
\* the cleanup.
Unmount ==
    /\ phase = "mounted"
    /\ phase' = "unmounted"
    /\ listening' = FALSE
    /\ dom' = <<>>
    /\ directIframeRef' = Null
    /\ LET s == Cleanup(Cur)
       IN  /\ rafRef' = s.raf
           /\ pendingHeightRef' = s.pending
           /\ iframeObserversRef' = s.observers
           /\ commitFrames' = s.frames
           /\ arrivedMax' = s.arrived
    /\ UNCHANGED <<resource, iframeHeight, isLoaded, docs, trackedIframesRef,
                   loadHandlers, delayedScans, settleLeft, styleHeight>>
    /\ UNCHANGED notRenderVars

\* UIResourceRenderer adds its iframe to the wrapper; the MutationObserver
\* callback (lines 321-342) injects into it and refreshes the tracked list.
IframeAdded ==
    /\ phase = "mounted" /\ listening
    /\ \E f \in Iframes \ SeqToSet(dom), direct \in BOOLEAN :
        LET d == Append(dom, f)
            ref == IF direct THEN Some(f) ELSE directIframeRef
            s0 == [Cur EXCEPT !.docs[f] = BlankDoc, !.style = Null]
            s1 == InjectHeightDetector(s0, d, f, resource)
        IN  /\ dom' = d
            /\ directIframeRef' = ref
            /\ Store(RefreshTrackedIframes(s1, TRUE, d, ref))
    /\ UNCHANGED <<phase, resource, listening, delayedScans, settleLeft>>
    /\ UNCHANGED notRenderVars

\* UIResourceRenderer removes its iframe; the MutationObserver callback only
\* refreshes the tracked list.  The removed element is never used again, so
\* the load handlers on it are dead.
IframeRemoved ==
    /\ phase = "mounted" /\ listening
    /\ \E f \in SeqToSet(dom) :
        LET d == Remove(dom, f)
            ref == IF directIframeRef = Some(f) THEN Null ELSE directIframeRef
            s0 == [Cur EXCEPT !.handlers = SelectSeq(@, LAMBDA p : p[1] # f),
                              !.style = Null]
        IN  /\ dom' = d
            /\ directIframeRef' = ref
            /\ Store(RefreshTrackedIframes(s0, TRUE, d, ref))
    /\ UNCHANGED <<phase, resource, listening, delayedScans, settleLeft>>
    /\ UNCHANGED notRenderVars

\* An iframe starts loading a document: the resource's markup (same origin
\* under allow-same-origin) or an external address / a navigation made by the
\* content itself (cross origin).  The old document and its probe are gone.
Navigate ==
    /\ \E f \in SeqToSet(dom), cross \in BOOLEAN :
        docs' = [docs EXCEPT ![f] = [cross |-> cross, ready |-> FALSE, probes |-> 0]]
    /\ UNCHANGED <<phase, resource, iframeHeight, isLoaded, rafRef, pendingHeightRef,
                   listening, dom, directIframeRef, trackedIframesRef,
                   iframeObserversRef, loadHandlers, delayedScans, settleLeft,
                   styleHeight, commitFrames, arrivedMax>>
    /\ UNCHANGED notRenderVars

\* loadHandler closures of iframe f, in the order attached: attemptInjection();
\* refreshTrackedIframes().
RECURSIVE RunLoadHandlers(_, _, _, _, _)
RunLoadHandlers(s, wrapper, d, direct, list) ==
    IF list = <<>> THEN s
    ELSE LET f == Head(list)[1]
             r == Head(list)[2]
             s1 == AttemptInjection(s, d, f, r)
         IN  RunLoadHandlers(RefreshTrackedIframes(s1, wrapper, d, direct),
                             wrapper, d, direct, Tail(list))

\* The iframe's load event fires.
LoadEvent ==
    /\ \E f \in SeqToSet(dom) :
        /\ ~docs[f].ready
        /\ LET s0 == [Cur EXCEPT !.docs[f].ready = TRUE]
               mine == SelectSeq(loadHandlers, LAMBDA p : p[1] = f)
           IN  Store(RunLoadHandlers(s0, phase = "mounted", dom, directIframeRef, mine))
    /\ UNCHANGED <<phase, resource, listening, dom, directIframeRef, delayedScans,
                   settleLeft>>
    /\ UNCHANGED notRenderVars

\* A message event from `source` carrying `data` reaches the window while the
\* listener is attached.  An iframe can post only while it is in the document.
HandleMessageFrom(source, data) ==
    /\ listening
    /\ source \in Iframes => source \in SeqToSet(dom)
    /\ Store(HandleMessageOn(Cur, dom, source, data))
    /\ UNCHANGED <<phase, resource, listening, dom, directIframeRef, delayedScans,
                   settleLeft>>
    /\ UNCHANGED notRenderVars

HandleMessage == \E source \in Sources, data \in MessageData : HandleMessageFrom(source, data)

\* The frame callback of scheduleHeightCommit, lines 35-43.
RafCallback ==
    /\ commitFrames > 0
    /\ Store(CommitFrame(Cur))
    /\ UNCHANGED <<phase, resource, listening, dom, directIframeRef, delayedScans,
                   settleLeft>>
    /\ UNCHANGED notRenderVars

\* A connected ResizeObserver reports the box of a tracked iframe, lines 59-71.
ResizeObserved ==
    /\ \E f \in iframeObserversRef \cap SeqToSet(dom), h \in MeasuredValues :
        Store(IF h # 0 THEN ScheduleHeightCommit(Cur, h) ELSE Cur)
    /\ UNCHANGED <<phase, resource, listening, dom, directIframeRef, delayedScans,
                   settleLeft>>
    /\ UNCHANGED notRenderVars

\* The next measurement of a settleProbe chain (its frame callback, and for
\* the delayed chain its 50 ms timer).  Chains started while another is still
\* running share every ref and measure alike; they are followed as one chain
\* with the larger number of measurements left.
SettleMeasure ==
    /\ settleLeft > 0
    /\ settleLeft' = settleLeft - 1
    /\ \E h \in MeasuredValues : Store(Measure(Cur, dom, h))
    /\ UNCHANGED <<phase, resource, listening, dom, directIframeRef, delayedScans>>
    /\ UNCHANGED notRenderVars

\* The setTimeout(..., 500) callback of the effect, lines 361-369; nothing
\* clears the timer.
DelayedScan ==
    /\ \E r \in delayedScans :
        /\ delayedScans' = delayedScans \ {r}
        /\ LET wrapper == phase = "mounted"
               s1 == IF wrapper THEN InjectAll(Cur, dom, dom, r) ELSE Cur
           IN  Store(RefreshTrackedIframes(s1, wrapper, dom, directIframeRef))
    /\ settleLeft' = Max(settleLeft, DelayedSettleFrames)
    /\ UNCHANGED <<phase, resource, listening, dom, directIframeRef>>
    /\ UNCHANGED notRenderVars

RenderNext ==
    \/ Mount
    \/ ChangeResource
    \/ Unmount
    \/ IframeAdded
    \/ IframeRemoved
    \/ Navigate
    \/ LoadEvent
    \/ HandleMessage
    \/ RafCallback
    \/ ResizeObserved
    \/ SettleMeasure
    \/ DelayedScan

----------------------------------------------------------------------------
(* MCPResourceProvider: the resource store                                 *)

\* Longest queue of state updaters between two renders that is followed.
MaxQueue == 2

StoreUris == {"ui://a", "ui://b"}

\* Resources handed to addResource: two that share each uri and differ in
\* name and text, and one that has no uri.
StoreInputs ==
    [uri : StoreUris, name : {"Form"}, mimeType : {"text/html"}, text : {"<form></form>"}]
        \cup [uri : StoreUris, name : {"Form v2"}, mimeType : {"text/html"}, text : {"<p>x</p>"}]
        \cup [uri : {""}, name : {"Form"}, mimeType : {"text/html"}, text : {"<form></form>"}]

EmptyMap == [u \in StoreUris |-> Null]

\* The updater of addResource: newMap = new Map(prev); if (!resource.uri)
\* return newMap; newMap.set(resource.uri, resource); return newMap.
AddResourceUpdater(prev, r) ==
    IF r.uri = "" THEN prev
    ELSE [prev EXCEPT ![r.uri] = Some(r)]

\* One queued updater applied to the previous state.
ApplyUpdater(prev, u) ==
    IF u.op = "clear" THEN EmptyMap ELSE AddResourceUpdater(prev, u.resource)

RECURSIVE ApplyUpdaters(_, _)
ApplyUpdaters(prev, queue) ==
    IF queue = <<>> THEN prev
    ELSE ApplyUpdaters(ApplyUpdater(prev, Head(queue)), Tail(queue))

\* getResource(uri): resources.get(uri) on the map of the last render.
GetResource(uri) == resources[uri]

\* Most renders of one link by the context that are followed.
MaxNotified == 3

LinkIdle ==
    /\ linkHref = Null
    /\ linkResource = Null
    /\ linkOpen = FALSE
    /\ linkNotified = 0

ToolCallViews == {"v1", "v2", "v3"}

ViewIdle ==
    /\ viewMounted = [v \in ToolCallViews |-> FALSE]
    /\ viewResource = [v \in ToolCallViews |-> Null]
    /\ viewEffect = [v \in ToolCallViews |-> FALSE]
    /\ addCalls = [u \in StoreUris |-> 0]

StoreInit ==
    /\ resources = EmptyMap
    /\ storeUpdates = <<>>
    /\ firstAdded = EmptyMap
    /\ LinkIdle
    /\ ViewIdle

\* addResource(resource): setResources(prev => ...) queues the updater.
AddResource ==
    /\ Len(storeUpdates) < MaxQueue
    /\ \E r \in StoreInputs :
        /\ storeUpdates' = Append(storeUpdates, [op |-> "add", resource |-> r])
        /\ firstAdded' = IF r.uri # "" /\ firstAdded[r.uri] = Null
                         THEN [firstAdded EXCEPT ![r.uri] = Some(r)]
                         ELSE firstAdded
    /\ UNCHANGED <<resources, linkVars, viewVars>>
    /\ UNCHANGED notStoreVars

\* clearResources(): setResources(new Map()).
ClearResources ==
    /\ Len(storeUpdates) < MaxQueue
    /\ storeUpdates' = Append(storeUpdates, [op |-> "clear", resource |-> Null])
    /\ firstAdded' = EmptyMap
    /\ UNCHANGED <<resources, linkVars, viewVars>>
    /\ UNCHANGED notStoreVars

\* The provider passes value={{resources, addResource, getResource,
\* clearResources}}: the state is a new Map after any updater, getResource is
\* rebuilt on [resources], so every consumer of the context renders again and
\* the link's useMemo on [href, getResource] runs getResource(href) again.
LinkOnRender ==
    IF linkHref = Null THEN UNCHANGED linkVars
    ELSE /\ linkResource' = resources'[The(linkHref)]
         /\ linkNotified' = linkNotified + 1
         /\ UNCHANGED <<linkHref, linkOpen>>

\* getResource is a dependency of the ToolCallInfo effect (line 84): after the
\* provider rendered with a new map the effect of every mounted view runs again.
ViewsOnRender ==
    /\ viewEffect' = [v \in ToolCallViews |-> viewMounted[v]]
    /\ UNCHANGED <<viewMounted, viewResource, addCalls>>

\* React renders the provider: the queued updaters run in order, then the
\* consumers of the context render.
StoreRender ==
    /\ storeUpdates # <<>>
    /\ linkNotified < MaxNotified
    /\ resources' = ApplyUpdaters(resources, storeUpdates)
    /\ storeUpdates' = <<>>
    /\ LinkOnRender
    /\ ViewsOnRender
    /\ UNCHANGED firstAdded
    /\ UNCHANGED notStoreVars

StoreNext ==
    \/ AddResource
    \/ ClearResources
    \/ StoreRender

\* The markdown renders <a href="ui://..."> as MCPUILink: its first render
\* reads getResource(href) from the current context.
LinkMount ==
    /\ linkHref = Null
    /\ \E h \in StoreUris :
        /\ linkHref' = Some(h)
        /\ linkResource' = GetResource(h)
    /\ linkOpen' = FALSE
    /\ linkNotified' = 0
    /\ UNCHANGED <<resources, storeUpdates, firstAdded, viewVars>>
    /\ UNCHANGED notStoreVars

\* handleClick: only the resolved link has the handler.
LinkClick ==
    /\ linkHref # Null
    /\ linkResource # Null
    /\ linkOpen' = ~linkOpen
    /\ UNCHANGED <<resources, storeUpdates, firstAdded, linkHref, linkResource, linkNotified,
                   viewVars>>
    /\ UNCHANGED notStoreVars

\* The message with the link leaves the page.
LinkUnmount ==
    /\ linkHref # Null
    /\ linkHref' = Null
    /\ linkResource' = Null
    /\ linkOpen' = FALSE
    /\ linkNotified' = 0
    /\ UNCHANGED <<resources, storeUpdates, firstAdded, viewVars>>
    /\ UNCHANGED notStoreVars

\* What the link shows: a plain anchor, the toggle, or the toggle with
\* the resource rendered under it.
LinkShows ==
    IF linkHref = Null THEN "nothing"
    ELSE IF linkResource = Null THEN "plain link"
    ELSE IF linkOpen THEN "open" ELSE "closed"

LinkNext ==
    \/ AddResource
    \/ ClearResources
    \/ StoreRender
    \/ LinkMount
    \/ LinkClick
    \/ LinkUnmount

\* What detectMCPUIResource finds in a view's output: nothing, or a resource
\* (one with an empty uri included).
ViewOutputs == {Null} \cup {Some(r) : r \in StoreInputs}

\* ToolCallInfo mounts with its output; its effect is due.
ViewMount ==
    /\ \E v \in ToolCallViews, out \in ViewOutputs :
        /\ ~viewMounted[v]
        /\ viewMounted' = [viewMounted EXCEPT ![v] = TRUE]
        /\ viewResource' = [viewResource EXCEPT ![v] = out]
        /\ viewEffect' = [viewEffect EXCEPT ![v] = TRUE]
    /\ UNCHANGED <<resources, storeUpdates, firstAdded, linkVars, addCalls>>
    /\ UNCHANGED notStoreVars

\* An effect that stores whatever was detected.
EffectAddsAlways(store, found) ==
    found # Null

\* The test of the effect, lines 73-79: a resource was detected, it has a
\* uri, and getResource(uri) finds nothing in the map of the last render.
EffectAdds(store, found) ==
    /\ found # Null
    /\ The(found).uri # ""
    /\ store[The(found).uri] = Null

\* The effect of one view runs, lines 72-84.
ViewEffect ==
    /\ \E v \in ToolCallViews :
        /\ viewEffect[v]
        /\ viewEffect' = [viewEffect EXCEPT ![v] = FALSE]
        /\ IF EffectAdds(resources, viewResource[v])
           THEN LET r == The(viewResource[v])
                IN  /\ storeUpdates' = Append(storeUpdates, [op |-> "add", resource |-> r])
                    /\ firstAdded' = IF r.uri # "" /\ firstAdded[r.uri] = Null
                                     THEN [firstAdded EXCEPT ![r.uri] = Some(r)]
                                     ELSE firstAdded
                    /\ addCalls' = IF r.uri \in StoreUris
                                   THEN [addCalls EXCEPT ![r.uri] = @ + 1]
                                   ELSE addCalls
           ELSE UNCHANGED <<storeUpdates, firstAdded, addCalls>>
    /\ UNCHANGED <<resources, linkVars, viewMounted, viewResource>>
    /\ UNCHANGED notStoreVars

ViewNext ==
    \/ ViewMount
    \/ ViewEffect
    \/ StoreRender

\* C3: add is first-writer-wins by uri: once every queued update is applied,
\* getResource(uri) is the first resource that was added under that uri.
C3_FirstWriterWins ==
    storeUpdates = <<>> =>
        \A u \in StoreUris : firstAdded[u] # Null => GetResource(u) = firstAdded[u]

----------------------------------------------------------------------------
(* Action forwarding: the onUIAction wrapper of MCPUIResourceRenderer,      *)
(* MCPResourceDisplay.handleUIAction, MCPUIArtifact.handleAction            *)

\* Actions followed per run.
MaxActions == 2

\* UIAction.type; "resize" stands for any type outside the five kinds.
RecognizedKinds == {"tool", "prompt", "notify", "link", "intent"}
ActionTypes == RecognizedKinds \cup {"resize"}

\* What the host callback does when invoked: throws, returns nothing, or
\* returns a promise (settled later).
HostReturns == {"throws", "void", "promise"}

\* How a returned promise settles: with no value, with a UI resource, or by
\* rejecting.
Settlements == [kind : {"value", "rejects"}, resource : {Null}]
                   \cup [kind : {"resource"}, resource : {Some(r) : r \in Resources}]

ActionInit ==
    /\ onUIActionProp \in BOOLEAN
    /\ calls = <<>>
    /\ opened = 0

\* The wrapper of lines 414-418 called with an action of type a:
\*   async (result) => { if (onUIAction) await Promise.resolve(onUIAction(result)); }
\* The host callback is invoked synchronously; a throw rejects the wrapper's
\* promise; otherwise the wrapper awaits what was returned.
WrapperCall(a, ret) ==
    IF ~onUIActionProp
    THEN [via |-> "renderer", type |-> a, invoked |-> FALSE, state |-> "fulfilled",
          result |-> Null]
    ELSE [via |-> "renderer", type |-> a, invoked |-> TRUE,
          state |-> IF ret = "throws" THEN "rejected"
                    ELSE IF ret = "void" THEN "fulfilled" ELSE "awaiting",
          result |-> Null]

OnUIAction ==
    /\ phase = "mounted"
    /\ Len(calls) < MaxActions
    /\ \E a \in ActionTypes, ret \in HostReturns :
        calls' = Append(calls, WrapperCall(a, ret))
    /\ UNCHANGED <<onUIActionProp, opened>>
    /\ UNCHANGED notActionVars

\* The awaited promise settles: the await returns (the value is dropped) or
\* throws (nothing catches it, the wrapper's promise rejects).
WrapperSettle(c, how) ==
    [c EXCEPT !.state = IF how.kind = "rejects" THEN "rejected" ELSE "fulfilled",
              !.result = how.resource]

HostSettles ==
    /\ \E k \in 1..Len(calls), how \in Settlements :
        /\ calls[k].state = "awaiting"
        /\ calls' = [calls EXCEPT ![k] = WrapperSettle(calls[k], how)]
    /\ UNCHANGED <<onUIActionProp, opened>>
    /\ UNCHANGED notActionVars

\* MCPResourceDisplay.handleUIAction: onAction?.(action), then the switch;
\* only 'link' with a url opens a window.  A throwing onAction propagates.
DisplayCall(a, ret) ==
    [via |-> "display", type |-> a, invoked |-> onUIActionProp,
     state |-> IF onUIActionProp /\ ret = "throws" THEN "threw" ELSE "returned",
     result |-> Null]

DisplayOpens(a, ret, hasUrl) ==
    IF onUIActionProp /\ ret = "throws" THEN 0
    ELSE IF a = "link" /\ hasUrl THEN 1 ELSE 0

HandleUIAction ==
    /\ Len(calls) < MaxActions
    /\ \E a \in ActionTypes, ret \in HostReturns, hasUrl \in BOOLEAN :
        /\ calls' = Append(calls, DisplayCall(a, ret))
        /\ opened' = opened + DisplayOpens(a, ret, hasUrl)
    /\ UNCHANGED onUIActionProp
    /\ UNCHANGED notActionVars

\* MCPUIArtifact.handleAction with onInteraction = MCPUIRenderer.handleInteraction
\* (Artifacts): the interaction handler only logs inside try/catch and is not
\* awaited.
ArtifactCall(a) ==
    [via |-> "artifact", type |-> a, invoked |-> FALSE, state |-> "fulfilled",
     result |-> Null]

HandleAction ==
    /\ Len(calls) < MaxActions
    /\ \E a \in ActionTypes : calls' = Append(calls, ArtifactCall(a))
    /\ UNCHANGED <<onUIActionProp, opened>>
    /\ UNCHANGED notActionVars

ActionNext ==
    \/ Mount
    \/ ResizeObserved
    \/ RafCallback
    \/ OnUIAction
    \/ HostSettles
    \/ HandleUIAction
    \/ HandleAction

\* C5: the host callback is never invoked for an action whose type is not
\* one of the recognized kinds, and no window is opened for it.
C5_UnrecognizedKindDropped ==
    \A k \in 1..Len(calls) : calls[k].invoked => calls[k].type \in RecognizedKinds

\* A step in which the host's promise for a tool action resolves with the
\* UI resource r.
ToolResolvesWith(r) ==
    \E k \in 1..Len(calls) :
        /\ calls[k].type = "tool" /\ calls[k].state = "awaiting"
        /\ calls' = [calls EXCEPT ![k] = WrapperSettle(calls[k],
                                            [kind |-> "resource", resource |-> Some(r)])]

\* C7: when the host callback of a tool action resolves with a UI resource,
\* that resource is mounted into the same instance and the height restarts
\* from the placeholder minimum.
C7_ToolResultRemounted ==
    [][\A r \in Resources :
          ToolResolvesWith(r) => resource' = r /\ iframeHeight' = PlaceholderHeight]_vars

\* C8: when the promise returned by the host callback rejects while the
\* handler awaits it, the rejection is caught: the handler's own promise does
\* not reject.
C8_RejectionCaught ==
    [][\A k \in 1..Len(calls) :
          (calls[k].state = "awaiting" /\ Len(calls') = Len(calls))
              => calls'[k].state # "rejected"]_vars

----------------------------------------------------------------------------
(* detectMCPUIResource                                                     *)
(*                                                                         *)
(* A string is a sequence of characters.  A JavaScript value is a record    *)
(* [t, s, m]: t its type, s the characters of a string (the literal of a    *)
(* number or boolean), m the <<key, value>> members of an object in         *)
(* insertion order (the items of an array, each under the empty key).  A    *)
(* JSON text is a sequence of tokens; JsonParse is a parser over them.      *)

StrType == <<"t", "y", "p", "e">>
StrResource == <<"r", "e", "s", "o", "u", "r", "c", "e">>
StrText == <<"t", "e", "x", "t">>
StrUri == <<"u", "r", "i">>
StrName == <<"n", "a", "m", "e">>
StrMimeType == <<"m", "i", "m", "e", "T", "y", "p", "e">>
\* 'ui://'
UiScheme == <<"u", "i", ":", "/", "/">>
\* 'text/html'
TextHtml == <<"t", "e", "x", "t", "/", "h", "t", "m", "l">>
TextUriList == <<"t", "e", "x", "t", "/", "u", "r", "i", "-", "l", "i", "s", "t">>
RemoteDom == <<"a", "p", "p", "l", "i", "c", "a", "t", "i", "o", "n", "/", "v", "n", "d", ".", "m", "c", "p", "-", "u", "i", ".", "r", "e", "m", "o", "t", "e", "-", "d", "o", "m">>

VNull == [t |-> "null", s |-> <<>>, m |-> <<>>]
Undefined == [t |-> "undefined", s |-> <<>>, m |-> <<>>]
VBool(b) == [t |-> "bool", s |-> <<b>>, m |-> <<>>]
VNum(n) == [t |-> "num", s |-> <<n>>, m |-> <<>>]
VStr(s) == [t |-> "str", s |-> s, m |-> <<>>]
VArr(items) == [t |-> "arr", s |-> <<>>, m |-> [k \in 1..Len(items) |-> <<<<>>, items[k]>>]]
VObj(members) == [t |-> "obj", s |-> <<>>, m |-> members]

\* ---- JSON text as tokens ----
P(c) == [k |-> c, v |-> VNull]
Scalar(val) == [k |-> "scalar", v |-> val]
Junk == [k |-> "junk", v |-> VNull]

RECURSIVE Tokens(_), ItemTokens(_), MemberTokens(_)
\* JSON.stringify, up to the tokens.
Tokens(val) ==
    IF val.t = "arr" THEN <<P("[")>> \o ItemTokens(val.m) \o <<P("]")>>
    ELSE IF val.t = "obj" THEN <<P("{")>> \o MemberTokens(val.m) \o <<P("}")>>
    ELSE <<Scalar(val)>>
ItemTokens(items) ==
    IF items = <<>> THEN <<>>
    ELSE Tokens(Head(items)[2])
            \o (IF Len(items) > 1 THEN <<P(",")>> \o ItemTokens(Tail(items)) ELSE <<>>)
MemberTokens(members) ==
    IF members = <<>> THEN <<>>
    ELSE <<Scalar(VStr(Head(members)[1])), P(":")>> \o Tokens(Head(members)[2])
            \o (IF Len(members) > 1 THEN <<P(",")>> \o MemberTokens(Tail(members)) ELSE <<>>)

Fail == [ok |-> FALSE, val |-> VNull, next |-> 0]
Ok(val, next) == [ok |-> TRUE, val |-> val, next |-> next]

\* obj[key] = val of JSON.parse: a repeated key keeps its place, the last value wins.
SetMember(members, key, val) ==
    IF \E k \in 1..Len(members) : members[k][1] = key
    THEN [k \in 1..Len(members) |->
             IF members[k][1] = key THEN <<key, val>> ELSE members[k]]
    ELSE Append(members, <<key, val>>)

RECURSIVE ParseValue(_, _), ParseItems(_, _, _, _), ParseMembers(_, _, _, _)
ParseValue(toks, i) ==
    IF i > Len(toks) THEN Fail
    ELSE IF toks[i].k = "scalar" THEN Ok(toks[i].v, i + 1)
    ELSE IF toks[i].k = "[" THEN ParseItems(toks, i + 1, <<>>, TRUE)
    ELSE IF toks[i].k = "{" THEN ParseMembers(toks, i + 1, <<>>, TRUE)
    ELSE Fail
ParseItems(toks, i, acc, first) ==
    IF i > Len(toks) THEN Fail
    ELSE IF first /\ toks[i].k = "]" THEN Ok(VArr(acc), i + 1)
    ELSE LET r == ParseValue(toks, i)
         IN  IF ~r.ok \/ r.next > Len(toks) THEN Fail
             ELSE IF toks[r.next].k = ","
                  THEN ParseItems(toks, r.next + 1, Append(acc, r.val), FALSE)
             ELSE IF toks[r.next].k = "]" THEN Ok(VArr(Append(acc, r.val)), r.next + 1)
             ELSE Fail
ParseMembers(toks, i, acc, first) ==
    IF i > Len(toks) THEN Fail
    ELSE IF first /\ toks[i].k = "}" THEN Ok(VObj(acc), i + 1)
    ELSE IF toks[i].k # "scalar" \/ i + 1 > Len(toks) THEN Fail
    ELSE IF toks[i].v.t # "str" \/ toks[i + 1].k # ":" THEN Fail
    ELSE LET r == ParseValue(toks, i + 2)
             acc2 == SetMember(acc, toks[i].v.s, r.val)
         IN  IF ~r.ok \/ r.next > Len(toks) THEN Fail
             ELSE IF toks[r.next].k = ","
                  THEN ParseMembers(toks, r.next + 1, acc2, FALSE)
             ELSE IF toks[r.next].k = "}" THEN Ok(VObj(acc2), r.next + 1)
             ELSE Fail

\* JSON.parse(output): the value, or a SyntaxError (ok = FALSE).
JsonParse(toks) ==
    LET r == ParseValue(toks, 1)
    IN  IF r.ok /\ r.next = Len(toks) + 1 THEN r ELSE Fail

\* ---- JavaScript property access and coercion ----
\* val[key] of a value that is not null or undefined.
Get(val, key) ==
    IF val.t = "obj" /\ \E k \in 1..Len(val.m) : val.m[k][1] = key
    THEN val.m[CHOOSE k \in 1..Len(val.m) : val.m[k][1] = key][2]
    ELSE Undefined

\* val?.key
OptGet(val, key) == IF val.t \in {"null", "undefined"} THEN Undefined ELSE Get(val, key)

\* String.prototype.startsWith
StartsWith(s, prefix) == Len(s) >= Len(prefix) /\ SubSeq(s, 1, Len(prefix)) = prefix

\* ToBoolean
Truthy(val) ==
    CASE val.t \in {"null", "undefined"} -> FALSE
      [] val.t = "bool" -> val.s = <<"true">>
      [] val.t = "num" -> val.s # <<"0">>
      [] val.t = "str" -> val.s # <<>>
      [] OTHER -> TRUE

\* ---- the function ----
NoMatch == [isMCPResource |-> FALSE, resource |-> Null, threw |-> FALSE]
Threw == [isMCPResource |-> FALSE, resource |-> Null, threw |-> TRUE]

\* The condition of lines 33-38, left to right with short circuit.  A uri
\* that is neither nullish nor a string has no startsWith: calling it throws.
ResourceCondition(parsed) ==
    LET res == OptGet(parsed, StrResource)
        uri == OptGet(res, StrUri)
    IN  IF OptGet(parsed, StrType) # VStr(StrResource) THEN "false"
        ELSE IF uri.t \in {"null", "undefined"} THEN "false"
        ELSE IF uri.t # "str" THEN "throws"
        ELSE IF ~StartsWith(uri.s, UiScheme) THEN "false"
        ELSE IF OptGet(res, StrMimeType) # VStr(TextHtml) THEN "false"
        ELSE IF Truthy(OptGet(res, StrText)) THEN "true" ELSE "false"

\* The try block, lines 20-44, on the tokens of a non-empty output.
TryBlock(toks) ==
    LET p == JsonParse(toks)
    IN  IF ~p.ok THEN Threw
        ELSE IF ResourceCondition(p.val) = "throws" THEN Threw
        ELSE IF ResourceCondition(p.val) = "true"
             THEN [isMCPResource |-> TRUE, resource |-> Some(Get(p.val, StrResource)),
                   threw |-> FALSE]
        ELSE NoMatch

\* The function without its catch clause: what the try block throws escapes.
DetectWithoutCatch(output) ==
    IF output.k \in {"null", "undefined"} \/ output.toks = <<>> THEN NoMatch
    ELSE TryBlock(output.toks)

\* detectMCPUIResource(output), lines 6-50: !output returns at once; whatever
\* the try block throws is caught and the function returns no match.
DetectMCPUIResource(output) ==
    IF output.k \in {"null", "undefined"} \/ output.toks = <<>> THEN NoMatch
    ELSE IF TryBlock(output.toks).threw THEN NoMatch
    ELSE TryBlock(output.toks)

\* ---- the outputs it is tried on ----
Absent == Undefined

UriOptions ==
    {Absent, VNull, VNum("5"), VStr(<<"u", "i", ":", "/", "/", "f", "o", "r", "m", "/", "1">>), VStr(<<"h", "t", "t", "p", ":", "/", "/", "x">>), VStr(<<"u", "i", ":", "/">>)}
MimeOptions ==
    {Absent, VStr(TextHtml), VStr(TextUriList), VStr(RemoteDom), VStr(<<"t", "e", "x", "t", "/", "p", "l", "a", "i", "n">>)}
TextOptions ==
    {Absent, VNull, VStr(<<>>), VStr(<<"<", "f", "o", "r", "m", ">", "<", "/", "f", "o", "r", "m", ">">>), VNum("5")}
NameOptions == {Absent, VStr(<<"F", "o", "r", "m">>)}

\* An object literal with the members whose value is present.
Members(pairs) == SelectSeq(pairs, LAMBDA m : m[2] # Absent)

ResourceObjects ==
    {VObj(Members(<< <<StrUri, u>>, <<StrName, n>>, <<StrMimeType, m>>, <<StrText, x>> >>)) :
        u \in UriOptions, n \in NameOptions, m \in MimeOptions, x \in TextOptions}

Envelopes ==
    {VObj(Members(<< <<StrType, ty>>, <<StrResource, r>> >>)) :
        ty \in {Absent, VStr(StrResource), VStr(StrText), VNum("5")},
        r \in ResourceObjects \cup {Absent, VNull, VStr(<<"h", "t", "t", "p", ":", "/", "/", "x">>)}}

\* {"type":"resource","resource":{"uri":"ui://form/1","name":"Form",
\*  "mimeType":"text/html","text":"<form></form>"}}
FormResource ==
    VObj(<< <<StrUri, VStr(<<"u", "i", ":", "/", "/", "f", "o", "r", "m", "/", "1">>)>>, <<StrName, VStr(<<"F", "o", "r", "m">>)>>,
            <<StrMimeType, VStr(TextHtml)>>, <<StrText, VStr(<<"<", "f", "o", "r", "m", ">", "<", "/", "f", "o", "r", "m", ">">>)>> >>)
FormEnvelope == VObj(<< <<StrType, VStr(StrResource)>>, <<StrResource, FormResource>> >>)

RECURSIVE Escape(_)
\* The characters of a string inside a JSON string literal: quotes and
\* backslashes are escaped.
Escape(s) ==
    IF s = <<>> THEN <<>>
    ELSE (IF Head(s) \in {"\"", "\\"} THEN <<"\\", Head(s)>> ELSE <<Head(s)>>) \o Escape(Tail(s))

RECURSIVE Chars(_), ItemChars(_), MemberChars(_)
\* JSON.stringify(val), character by character.
Chars(val) ==
    CASE val.t = "str" -> <<"\"">> \o Escape(val.s) \o <<"\"">>
      [] val.t = "num" -> val.s
      [] val.t = "bool" -> IF val.s = <<"true">> THEN <<"t", "r", "u", "e">>
                           ELSE <<"f", "a", "l", "s", "e">>
      [] val.t = "arr" -> <<"[">> \o ItemChars(val.m) \o <<"]">>
      [] val.t = "obj" -> <<"{">> \o MemberChars(val.m) \o <<"}">>
      [] OTHER -> <<"n", "u", "l", "l">>
ItemChars(items) ==
    IF items = <<>> THEN <<>>
    ELSE Chars(Head(items)[2])
            \o (IF Len(items) > 1 THEN <<",">> \o ItemChars(Tail(items)) ELSE <<>>)
MemberChars(members) ==
    IF members = <<>> THEN <<>>
    ELSE <<"\"">> \o Escape(Head(members)[1]) \o <<"\"", ":">> \o Chars(Head(members)[2])
            \o (IF Len(members) > 1 THEN <<",">> \o MemberChars(Tail(members)) ELSE <<>>)

\* {"type":"text","text":"<the JSON text of inner>"}: a text content item
\* whose text is the serialized envelope.
WrappedText(inner) ==
    VObj(<< <<StrType, VStr(StrText)>>, <<StrText, VStr(Chars(inner))>> >>)

\* A text content item that carries no JSON.
PlainText == VObj(<< <<StrType, VStr(StrText)>>, <<StrText, VStr(<<"h", "e", "l", "l", "o">>)>> >>)

UriListEnvelope ==
    VObj(<< <<StrType, VStr(StrResource)>>,
            <<StrResource, VObj(<< <<StrUri, VStr(<<"u", "i", ":", "/", "/", "f", "o", "r", "m", "/", "1">>)>>,
                                   <<StrMimeType, VStr(TextUriList)>>,
                                   <<StrText, VStr(<<"h", "t", "t", "p", ":", "/", "/", "x">>)>> >>)>> >>)
HttpEnvelope ==
    VObj(<< <<StrType, VStr(StrResource)>>,
            <<StrResource, VObj(<< <<StrUri, VStr(<<"h", "t", "t", "p", ":", "/", "/", "x">>)>>,
                                   <<StrMimeType, VStr(TextHtml)>>,
                                   <<StrText, VStr(<<"<", "f", "o", "r", "m", ">", "<", "/", "f", "o", "r", "m", ">">>)>> >>)>> >>)

\* The form envelope with its members in the other order.
ReversedEnvelope == VObj(<< <<StrResource, FormResource>>, <<StrType, VStr(StrResource)>> >>)

\* Envelopes that are also sent wrapped in a text item.
WrappedInner == {FormEnvelope, UriListEnvelope, HttpEnvelope, VObj(<<>>)}

\* Tool results that are an array of content items.
ContentArrays ==
    {VArr(<<>>), VArr(<<FormEnvelope>>), VArr(<<PlainText>>),
     VArr(<<PlainText, FormEnvelope>>), VArr(<<HttpEnvelope, FormEnvelope>>),
     VArr(<<WrappedText(FormEnvelope)>>), VArr(<<PlainText, WrappedText(FormEnvelope)>>),
     VArr(<<FormEnvelope, WrappedText(UriListEnvelope)>>)}

JsonValues ==
    Envelopes \cup {WrappedText(e) : e \in WrappedInner} \cup ContentArrays
        \cup {r \in ResourceObjects : Get(r, StrName) = Absent}
        \cup {PlainText, ReversedEnvelope, FormResource, VNull, VBool("true"), VBool("false"), VNum("0"), VNum("5"),
              VStr(<<>>), VStr(<<"u", "i", ":", "/", "/", "f", "o", "r", "m", "/", "1">>), VObj(<<>>)}

\* Texts that are not JSON: every proper prefix of the form envelope's text,
\* a text with a token too many, and text that is no JSON token at all.
MalformedTexts ==
    {SubSeq(Tokens(FormEnvelope), 1, n) : n \in 1..(Len(Tokens(FormEnvelope)) - 1)}
        \cup {Tokens(FormEnvelope) \o <<P("}")>>, <<Junk>>, <<P("{"), Junk, P("}")>>}

DetectCases ==
    {[origin |-> [k |-> "json", v |-> val], input |-> [k |-> "string", toks |-> Tokens(val)]] :
        val \in JsonValues}
    \cup {[origin |-> [k |-> "malformed", v |-> VNull], input |-> [k |-> "string", toks |-> m]] :
            m \in MalformedTexts}
    \cup {[origin |-> [k |-> "empty", v |-> VNull], input |-> [k |-> c, toks |-> <<>>]] :
            c \in {"null", "undefined", "string"}}

DetectIdle ==
    /\ detOrigin = [k |-> "empty", v |-> VNull]
    /\ detInput = [k |-> "null", toks |-> <<>>]
    /\ detResult = NoMatch
    /\ detPc = "done"
    /\ extracted = [artifacts |-> <<>>, threw |-> FALSE]
    /\ artPc = "done"

DetectInit ==
    /\ \E c \in DetectCases : detOrigin = c.origin /\ detInput = c.input
    /\ detResult = NoMatch
    /\ detPc = "ready"
    /\ extracted = [artifacts |-> <<>>, threw |-> FALSE]
    /\ artPc = "ready"

Detect ==
    /\ detPc = "ready"
    /\ detResult' = DetectMCPUIResource(detInput)
    /\ detPc' = "done"
    /\ UNCHANGED <<detOrigin, detInput, extracted, artPc>>
    /\ UNCHANGED notDetectVars

----------------------------------------------------------------------------
(* utils/mcpUIDetector.ts: detectMCPUIResources, isMCPUIResource,           *)
(* extractMCPUIFromMessage                                                 *)
(*                                                                         *)
(* Message content is a JSON text with what surrounds it: a ```json fence,  *)
(* <mcp-ui-resource> tags, a tool_response: prefix, or nothing.             *)

Wraps == {"json-block", "tag", "tool-response", "plain"}

IsTok(toks, i, tok) == i <= Len(toks) /\ toks[i] = tok

\* "uri"\s*:\s*"ui:\/\/[^"]+ at token i.
UriPatternAt(toks, i) ==
    /\ IsTok(toks, i, Scalar(VStr(StrUri))) /\ IsTok(toks, i + 1, P(":"))
    /\ i + 2 <= Len(toks) /\ toks[i + 2].k = "scalar" /\ toks[i + 2].v.t = "str"
    /\ StartsWith(toks[i + 2].v.s, UiScheme) /\ Len(toks[i + 2].v.s) > Len(UiScheme)

\* "type"\s*:\s*"resource" at token i.
TypePatternAt(toks, i) ==
    /\ IsTok(toks, i, Scalar(VStr(StrType))) /\ IsTok(toks, i + 1, P(":"))
    /\ IsTok(toks, i + 2, Scalar(VStr(StrResource)))

NoRegexMatch == [found |-> FALSE, toks |-> <<>>]

\* match[1] of pattern 1 on a fenced text: the whole text, when it opens with
\* a brace, holds "uri": "ui://..." and closes with a brace before the fence.
JsonBlockMatch(toks) ==
    IF /\ Len(toks) >= 2 /\ toks[1] = P("{") /\ toks[Len(toks)] = P("}")
       /\ \E i \in 2..(Len(toks) - 1) : UriPatternAt(toks, i)
    THEN [found |-> TRUE, toks |-> toks]
    ELSE NoRegexMatch

\* match[1] of pattern 3 on a prefixed text: from the opening brace, lazily,
\* to the first closing brace after the first "type": "resource".
ToolResponseMatch(toks) ==
    LET starts == {i \in 2..Len(toks) : TypePatternAt(toks, i)}
        first == CHOOSE i \in starts : \A j \in starts : i <= j
        ends == {j \in 2..Len(toks) : j > first + 2 /\ toks[j] = P("}")}
        last == CHOOSE j \in ends : \A x \in ends : j <= x
    IN  IF Len(toks) >= 1 /\ toks[1] = P("{") /\ starts # {} /\ ends # {}
        THEN [found |-> TRUE, toks |-> SubSeq(toks, 1, last)]
        ELSE NoRegexMatch

Artifact(by, res) == [by |-> by, mcpResource |-> res]

\* val.uri?.startsWith('ui://') on a value that is not nullish: true, false,
\* or a TypeError when uri is there and is not a string.
UriStartsWithUi(val) ==
    LET uri == Get(val, StrUri)
    IN  IF uri.t \in {"null", "undefined"} THEN "false"
        ELSE IF uri.t # "str" THEN "throws"
        ELSE IF StartsWith(uri.s, UiScheme) THEN "true" ELSE "false"

\* Pattern 1, lines 15-38: the artifacts it pushes.
JsonBlockArtifacts(toks) ==
    LET m == JsonBlockMatch(toks)
        p == JsonParse(m.toks)
    IN  IF m.found /\ p.ok /\ p.val.t \notin {"null", "undefined"}
           /\ UriStartsWithUi(p.val) = "true"
        THEN <<Artifact("json-block", p.val)>>
        ELSE <<>>

\* Pattern 2, lines 41-63: whatever parses between the tags becomes an
\* artifact; null.title throws inside the try.
TagArtifacts(toks) ==
    LET p == JsonParse(toks)
    IN  IF p.ok /\ p.val.t # "null" THEN <<Artifact("tag", p.val)>> ELSE <<>>

\* Pattern 3, lines 66-88.
ToolResponseArtifacts(toks) ==
    LET m == ToolResponseMatch(toks)
        p == JsonParse(m.toks)
        res == OptGet(p.val, StrResource)
    IN  IF /\ m.found /\ p.ok
           /\ OptGet(p.val, StrType) = VStr(StrResource)
           /\ res.t \notin {"null", "undefined"}
           /\ UriStartsWithUi(res) = "true"
        THEN <<Artifact("tool-response", res)>>
        ELSE <<>>

\* detectMCPUIResources(content, messageId), lines 7-95: each pattern's
\* regular expression finds its own marker only.
DetectMCPUIResources(wrap, toks) ==
    (IF wrap = "json-block" THEN JsonBlockArtifacts(toks) ELSE <<>>)
        \o (IF wrap = "tag" THEN TagArtifacts(toks) ELSE <<>>)
        \o (IF wrap = "tool-response" THEN ToolResponseArtifacts(toks) ELSE <<>>)

\* isMCPUIResource(obj), lines 100-121: "true", "false" or "throws".
IsMCPUIResource(obj) ==
    LET res == Get(obj, StrResource)
    IN  IF ~Truthy(obj) \/ obj.t \notin {"obj", "arr"} THEN "false"
        ELSE IF UriStartsWithUi(obj) # "false" THEN UriStartsWithUi(obj)
        ELSE IF /\ Get(obj, StrType) = VStr(StrResource)
                /\ res.t \notin {"null", "undefined"}
                /\ UriStartsWithUi(res) # "false"
             THEN UriStartsWithUi(res)
        ELSE IF Truthy(Get(obj, StrMimeType))
                /\ (Truthy(Get(obj, StrText)) \/ Truthy(Get(obj, <<"b", "l", "o", "b">>))
                        \/ Truthy(Get(obj, <<"u", "r", "l">>)))
             THEN "true"
        ELSE "false"

\* extractMCPUIFromMessage(message), lines 126-158, on a message with one
\* tool call whose result is result (Absent: no toolCalls) and with text
\* (the empty text is falsy and skipped).
ExtractMCPUIFromMessage(result, wrap, toks) ==
    LET fromCalls == IF Truthy(result) /\ IsMCPUIResource(result) = "true"
                     THEN <<Artifact("tool-call", result)>> ELSE <<>>
    IN  IF Truthy(result) /\ IsMCPUIResource(result) = "throws"
        THEN [artifacts |-> <<>>, threw |-> TRUE]
        ELSE [artifacts |-> fromCalls \o (IF toks = <<>> THEN <<>>
                                           ELSE DetectMCPUIResources(wrap, toks)),
              threw |-> FALSE]

\* detectMCPUIResources called on the text, wrapped one way or another.
DetectResources ==
    /\ artPc = "ready"
    /\ \E wrap \in Wraps :
        extracted' = [artifacts |-> DetectMCPUIResources(wrap, detInput.toks),
                      threw |-> FALSE]
    /\ artPc' = "done"
    /\ UNCHANGED <<detOrigin, detInput, detResult, detPc>>
    /\ UNCHANGED notDetectVars

\* extractMCPUIFromMessage called on a message whose tool call returned the
\* value, or whose text holds it.
ExtractFromMessage ==
    /\ artPc = "ready"
    /\ detOrigin.k = "json"
    /\ \E inResult \in BOOLEAN, wrap \in Wraps :
        extracted' = IF inResult
                     THEN ExtractMCPUIFromMessage(detOrigin.v, wrap, <<>>)
                     ELSE ExtractMCPUIFromMessage(Absent, wrap, detInput.toks)
    /\ artPc' = "done"
    /\ UNCHANGED <<detOrigin, detInput, detResult, detPc>>
    /\ UNCHANGED notDetectVars

DetectNext ==
    \/ Detect
    \/ DetectResources
    \/ ExtractFromMessage

----------------------------------------------------------------------------
(* The sandbox of every iframe the components create                       *)

\* sandboxPermissions of MCPUIResourceRenderer, line 402.
SandboxPermissions == <<"allow-scripts", "allow-same-origin">>

\* The other components that set a sandbox on their iframe: MCPUIRenderer of
\* MCPUIDetector.tsx, and MCPResourceDisplay as set up by
\* test-librechat-mcp.sh and as given in the integration guide.
IframeComponents == {"MCPUIRenderer", "MCPResourceDisplay", "MCPResourceDisplay (guide)"}

\* A component that also lets its content open windows.
SandboxWithPopups(c) ==
    <<"allow-scripts", "allow-same-origin", "allow-popups">>

\* The sandbox attribute each of them writes, token by token.
SandboxAttribute(c) ==
    CASE c = "MCPUIRenderer" -> <<"allow-scripts", "allow-forms", "allow-same-origin">>
      [] c = "MCPResourceDisplay" -> <<"allow-scripts", "allow-same-origin", "allow-forms">>
      [] OTHER -> <<"allow-scripts", "allow-same-origin">>

\* The sandbox of an iframe of MCPUIResourceRenderer.
RendererSandbox == SeqToSet(SandboxPermissions)

SandboxIdle == sandboxes = [c \in IframeComponents |-> Null]

\* A component renders and creates its iframe.
RenderIframe ==
    /\ \E c \in IframeComponents :
        /\ sandboxes[c] = Null
        /\ sandboxes' = [sandboxes EXCEPT ![c] = Some(SeqToSet(SandboxAttribute(c)))]
    /\ UNCHANGED notSandboxVars

\* A component is removed with its iframe.
RemoveIframe ==
    /\ \E c \in IframeComponents :
        /\ sandboxes[c] # Null
        /\ sandboxes' = [sandboxes EXCEPT ![c] = Null]
    /\ UNCHANGED notSandboxVars

SandboxNext ==
    \/ Mount
    \/ IframeAdded
    \/ IframeRemoved
    \/ Unmount
    \/ RenderIframe
    \/ RemoveIframe

----------------------------------------------------------------------------
(* MCPUIArtifact: the artifact's payload becomes the resource shown         *)

\* artifact.content: a JSON text, a text that is not JSON, or the empty text.
ArtifactContents ==
    {[origin |-> "json", toks |-> Tokens(val)] :
        val \in {FormResource, FormEnvelope, HttpEnvelope, VObj(<<>>), VNum("5"), VNull}}
    \cup {[origin |-> "malformed", toks |-> m] : m \in MalformedTexts}
    \cup {[origin |-> "empty", toks |-> <<>>]}

\* The artifact prop: mcpResource may be absent, content as above.
Artifacts == [mcpResource : {Absent, FormResource}, content : ArtifactContents]

ArtifactIdle == artifact = Null /\ artResource = Null /\ artError = FALSE

\* setResource(v): null is the state's empty value.
SetResource(val) == IF val.t \in {"null", "undefined"} THEN Null ELSE Some(val)

\* The effect without its catch clause: a parse failure sets no error.
ArtifactEffectUncaught(s, a) ==
    IF Truthy(a.mcpResource) THEN [s EXCEPT !.resource = SetResource(a.mcpResource)]
    ELSE IF a.content.toks # <<>> /\ JsonParse(a.content.toks).ok
         THEN [s EXCEPT !.resource = SetResource(JsonParse(a.content.toks).val)]
    ELSE s

\* The effect keyed on [artifact], lines 19-32.
ArtifactEffect(s, a) ==
    IF Truthy(a.mcpResource) THEN [s EXCEPT !.resource = SetResource(a.mcpResource)]
    ELSE IF a.content.toks = <<>> THEN s
    ELSE IF JsonParse(a.content.toks).ok
         THEN [s EXCEPT !.resource = SetResource(JsonParse(a.content.toks).val)]
    ELSE [s EXCEPT !.error = TRUE]

\* The render branches, lines 45-69: the error box, the loading box, or
\* UIResourceRenderer with its iframe.
ArtifactShows ==
    IF artifact = Null THEN "nothing"
    ELSE IF artError THEN "error"
    ELSE IF artResource = Null THEN "loading"
    ELSE "iframe"

\* The component is mounted with an artifact, or its artifact prop changes:
\* the effect runs on the new artifact; useState keeps resource and error.
ArtifactRender ==
    /\ \E a \in Artifacts :
        /\ artifact # Some(a)
        /\ artifact' = Some(a)
        /\ LET s == ArtifactEffect([resource |-> artResource, error |-> artError], a)
           IN  artResource' = s.resource /\ artError' = s.error
    /\ UNCHANGED notArtifactVars

\* The component is removed; its state goes with it.
ArtifactUnmount ==
    /\ artifact # Null
    /\ artifact' = Null /\ artResource' = Null /\ artError' = FALSE
    /\ UNCHANGED notArtifactVars

ArtifactNext ==
    \/ ArtifactRender
    \/ ArtifactUnmount

----------------------------------------------------------------------------
(* applyHeight and scheduleHeightCommit on a run of accepted samples        *)

\* Longest run of samples that is followed.
MaxSamples == 3

\* The runs of accepted samples: every order of every multiset.
SampleRuns ==
    UNION {[1..n -> SampleValues] : n \in 1..MaxSamples}

\* The cells of a freshly mounted instance.
FoldStart ==
    [height |-> PlaceholderHeight, loaded |-> FALSE, raf |-> Null, pending |-> Null,
     frames |-> 0, arrived |-> Null]

FoldIdle == foldInput = <<>> /\ foldLeft = <<>> /\ fold = FoldStart

FoldInit == foldInput \in SampleRuns /\ foldLeft = foldInput /\ fold = FoldStart

\* The next sample arrives: scheduleHeightCommit(h).
FoldArrive ==
    /\ foldLeft # <<>>
    /\ fold' = ScheduleHeightCommit(fold, Head(foldLeft))
    /\ foldLeft' = Tail(foldLeft)
    /\ UNCHANGED foldInput
    /\ UNCHANGED notFoldVars

\* A rendering frame begins: the requested callback runs.
FoldFrame ==
    /\ fold.frames > 0
    /\ fold' = CommitFrame(fold)
    /\ UNCHANGED <<foldInput, foldLeft>>
    /\ UNCHANGED notFoldVars

FoldNext ==
    \/ FoldArrive
    \/ FoldFrame

----------------------------------------------------------------------------
(* MCPUIRenderer (MCPUIDetector.tsx): the blob URL of the wrapped HTML      *)

\* Most blob URLs one component creates that are followed.
MaxBlobs == 5

\* The resource prop: text and uri are the keys of the useMemo, name is not.
BlobResources ==
    [text : {"<form></form>", "<p>x</p>", ""}, uri : {"ui://a", "ui://b"},
     name : {"Form", "Form v2"}]

BlobIdle ==
    /\ blobPhase = "init"
    /\ blobProps = [text |-> "", uri |-> "ui://a", name |-> "Form"]
    /\ blobCreated = 0
    /\ blobLive = {}
    /\ iframeContent = Null

\* A cleanup that revokes nothing.
RevokeNothing(live, url) ==
    live

\* The cleanup of the effect keyed on [iframeContent], lines 150-154:
\* URL.revokeObjectURL(iframeContent); every url of createObjectURL starts
\* with 'blob:'.
RevokeObjectURL(live, url) ==
    live \ {url}

\* First render and commit: useMemo wraps the HTML and creates the url, the
\* iframe gets it as src, the effect keeps its cleanup.
BlobMount ==
    /\ blobPhase = "init"
    /\ blobPhase' = "mounted"
    /\ blobProps' \in BlobResources
    /\ blobCreated' = blobCreated + 1
    /\ blobLive' = blobLive \cup {blobCreated + 1}
    /\ iframeContent' = Some(blobCreated + 1)
    /\ UNCHANGED notBlobVars

\* The component renders with another resource prop.  When text or uri
\* differ the useMemo runs again: a new url is created and becomes the
\* iframe's src at commit; then the cleanup of the previous effect runs with
\* the url it captured.  When only the name differs the memoized url stays.
BlobRender ==
    /\ blobPhase = "mounted"
    /\ \E r \in BlobResources \ {blobProps} :
        /\ blobProps' = r
        /\ IF r.text = blobProps.text /\ r.uri = blobProps.uri
           THEN UNCHANGED <<blobCreated, blobLive, iframeContent>>
           ELSE /\ blobCreated < MaxBlobs
                /\ blobCreated' = blobCreated + 1
                /\ iframeContent' = Some(blobCreated + 1)
                /\ blobLive' = RevokeObjectURL(blobLive \cup {blobCreated + 1},
                                               The(iframeContent))
    /\ UNCHANGED blobPhase
    /\ UNCHANGED notBlobVars

\* The component is removed: the iframe leaves the document and the cleanup
\* of the last effect runs.
BlobUnmount ==
    /\ blobPhase = "mounted"
    /\ blobPhase' = "unmounted"
    /\ blobLive' = RevokeObjectURL(blobLive, The(iframeContent))
    /\ UNCHANGED <<blobProps, blobCreated, iframeContent>>
    /\ UNCHANGED notBlobVars

BlobNext ==
    \/ BlobMount
    \/ BlobRender
    \/ BlobUnmount

----------------------------------------------------------------------------
(* The /api/mcp route: the server-configuration store                      *)

\* POST requests that may await their test connection at the same time.
MaxConnecting == 1

\* 'agentcore' is one of the default servers; 's1' is not stored at first.
ConfigIds == {"agentcore", "s1"}

\* Field values; "" stands for a field that is missing or empty (both falsy).
ConfigNames == {"", "AgentCore Experiment", "S1"}
ConfigTransports == {"", "http"}

ConfigValues ==
    [id : ConfigIds \cup {""}, name : ConfigNames, transport : ConfigTransports,
     enabled : BOOLEAN]

\* The body of a POST: {} when req.json() throws, else the config.
PostBodies == {Null} \cup {Some(c) : c \in ConfigValues}

\* The body of a PUT, a Partial<MCPServerConfig>: {} when req.json() throws;
\* each field is absent ({}) or present.  The bodies update name and enabled.
PutBodies ==
    {Null} \cup
    {Some(u) : u \in [id : {Null} \cup {Some(i) : i \in ConfigIds \cup {""}},
                      name : {Null} \cup {Some(n) : n \in ConfigNames},
                      enabled : {Null} \cup {Some(e) : e \in BOOLEAN}]}

\* searchParams.get('id') of a DELETE: null, empty or an id.
DeleteIds == {Null} \cup {Some(i) : i \in ConfigIds \cup {""}}

\* initializeServers() without MCP_SERVERS, lines 24-34.
DefaultServers ==
    [i \in ConfigIds |->
        IF i = "agentcore"
        THEN Some([id |-> "agentcore", name |-> "AgentCore Experiment",
                   transport |-> "http", enabled |-> FALSE])
        ELSE Null]

Reply(store, status) == [store |-> store, status |-> status]

\* !server.id || !server.name || !server.transport
InvalidConfig(c) == c.id = "" \/ c.name = "" \/ c.transport = ""

\* MCPClient.connect followed by disconnect: throws when the server is not
\* enabled, and when the transport, the connection or tools/list fails.
Connects(c, reachable) == c.enabled /\ reachable

\* POST that saves the config whatever the test connection did.
PostHandlerUntested(store, body, reachable) ==
    IF body = Null THEN Reply(store, 500)
    ELSE IF InvalidConfig(The(body)) THEN Reply(store, 400)
    ELSE Reply([store EXCEPT ![The(body).id] = body], 200)

\* POST, lines 62-102: what it answers and what it leaves in the Map, given
\* the Map at its last step.
PostHandler(store, body, reachable) ==
    IF body = Null THEN Reply(store, 500)
    ELSE IF InvalidConfig(The(body)) THEN Reply(store, 400)
    ELSE IF ~Connects(The(body), reachable) THEN Reply(store, 400)
    ELSE Reply([store EXCEPT ![The(body).id] = body], 200)

\* { ...existingServer, ...updates }: id was taken out of updates.
MergeUpdates(existing, u) ==
    [id |-> existing.id,
     name |-> IF u.name = Null THEN existing.name ELSE The(u.name),
     transport |-> existing.transport,
     enabled |-> IF u.enabled = Null THEN existing.enabled ELSE The(u.enabled)]

\* PUT, lines 104-137.
PutHandler(store, body) ==
    IF body = Null THEN Reply(store, 500)
    ELSE IF The(body).id = Null \/ The(body).id = Some("") THEN Reply(store, 400)
    ELSE LET id == The(The(body).id)
         IN  IF store[id] = Null THEN Reply(store, 404)
             ELSE Reply([store EXCEPT ![id] = Some(MergeUpdates(The(@), The(body)))], 200)

\* DELETE, lines 139-169.
DeleteHandler(store, id) ==
    IF id = Null \/ id = Some("") THEN Reply(store, 400)
    ELSE IF store[The(id)] = Null THEN Reply(store, 404)
    ELSE Reply([store EXCEPT ![The(id)] = Null], 200)

\* The module as loaded: the default servers, no request under way.
ConfigIdle ==
    /\ serverConfigs = DefaultServers
    /\ connecting = <<>>
    /\ response = [op |-> "none", status |-> 0]

\* A POST arrives: it is answered at once when the body cannot be read or
\* the config is invalid; otherwise it awaits the test connection.
PostReceive ==
    /\ \E body \in PostBodies :
        IF body = Null \/ InvalidConfig(The(body))
        THEN /\ serverConfigs' = PostHandler(serverConfigs, body, FALSE).store
             /\ response' = [op |-> "POST",
                             status |-> PostHandler(serverConfigs, body, FALSE).status]
             /\ UNCHANGED connecting
        ELSE /\ Len(connecting) < MaxConnecting
             /\ connecting' = Append(connecting, The(body))
             /\ UNCHANGED <<serverConfigs, response>>
    /\ UNCHANGED notConfigVars

\* The test connection of a waiting POST settles; the handler finishes.
PostSettle ==
    /\ \E k \in 1..Len(connecting), reachable \in BOOLEAN :
        LET r == PostHandler(serverConfigs, Some(connecting[k]), reachable)
        IN  /\ serverConfigs' = r.store
            /\ response' = [op |-> "POST", status |-> r.status]
            /\ connecting' = SubSeq(connecting, 1, k - 1)
                                \o SubSeq(connecting, k + 1, Len(connecting))
    /\ UNCHANGED notConfigVars

Put ==
    /\ \E body \in PutBodies :
        /\ serverConfigs' = PutHandler(serverConfigs, body).store
        /\ response' = [op |-> "PUT", status |-> PutHandler(serverConfigs, body).status]
    /\ UNCHANGED connecting
    /\ UNCHANGED notConfigVars

Delete ==
    /\ \E id \in DeleteIds :
        /\ serverConfigs' = DeleteHandler(serverConfigs, id).store
        /\ response' = [op |-> "DELETE", status |-> DeleteHandler(serverConfigs, id).status]
    /\ UNCHANGED connecting
    /\ UNCHANGED notConfigVars

ConfigNext ==
    \/ PostReceive
    \/ PostSettle
    \/ Put
    \/ Delete

----------------------------------------------------------------------------
(* The feedback loop: the displayed height is written to the iframe's      *)
(* style, and the iframe and its document are measured again.               *)

\* Displayed heights followed, pixels.
HeightCap == 800

\* Documents: one whose height is its own whatever the viewport (own, half
\* pixels), and one laid out to fill the viewport (html, body { height: 100% })
\* with margins around it (margin, half pixels; 32 is the default 8px body
\* margin above and below).
Contents ==
    [kind : {"fixed"}, own : {80, 1400}, margin : {0}]
        \cup [kind : {"fill"}, own : {0}, margin : {0, 32}]

\* Height of the iframe's box, half pixels: the style height once the effect
\* of lines 105-116 has written it (border: 'none', line 408), else the
\* unstyled box.
BoxHeight(unstyled) == IF styleHeight # Null THEN 2 * The(styleHeight) ELSE unstyled

\* What getDocumentHeight (lines 191-222) and settleProbe's document metrics
\* (lines 85-92) give in a viewport of height v: the largest of the
\* scrollHeight, offsetHeight and clientHeight of body and html;
\* html.clientHeight is the viewport.
DocumentHeight(c, v) ==
    IF c.kind = "fixed" THEN Max(c.own, v) ELSE v + c.margin

UnstyledBoxes == MeasuredValues \ {0}

\* sendHeight of the injected probe (lines 224-234, on its timers, its
\* observers and every 2 s): the message reaches handleMessage.
ProbeSendsHeight ==
    /\ phase = "mounted" /\ listening
    /\ iframeHeight < HeightCap
    /\ \E f \in SeqToSet(dom), u \in UnstyledBoxes :
        /\ ~docs[f].cross /\ docs[f].probes > 0
        /\ Store(HandleMessageOn(Cur, dom, f,
                 [type |-> "mcp-ui-height-update", hasPayload |-> FALSE, where |-> "flat",
                  height |-> [k |-> "num", v |-> DocumentHeight(content, BoxHeight(u))],
                  alt |-> [k |-> "missing", v |-> 0]]))
    /\ UNCHANGED <<phase, resource, listening, dom, directIframeRef, delayedScans,
                   settleLeft>>
    /\ UNCHANGED notRenderVars

\* The host's ResizeObserver reports the iframe's box, lines 59-71.
BoxObserved ==
    /\ iframeHeight < HeightCap
    /\ \E f \in iframeObserversRef \cap SeqToSet(dom), u \in UnstyledBoxes :
        Store(ScheduleHeightCommit(Cur, BoxHeight(u)))
    /\ UNCHANGED <<phase, resource, listening, dom, directIframeRef, delayedScans,
                   settleLeft>>
    /\ UNCHANGED notRenderVars

\* The next measurement of the settleProbe chain, lines 80-95: the iframe's
\* box and, when the document can be read, its metrics.
SettleMeasuresDocument ==
    /\ settleLeft > 0
    /\ iframeHeight < HeightCap
    /\ settleLeft' = settleLeft - 1
    /\ \E u \in UnstyledBoxes :
        Store(Measure(Cur, dom,
                      IF trackedIframesRef # <<>> /\ ~docs[Head(trackedIframesRef)].cross
                      THEN Max(BoxHeight(u), DocumentHeight(content, BoxHeight(u)))
                      ELSE BoxHeight(u)))
    /\ UNCHANGED <<phase, resource, listening, dom, directIframeRef, delayedScans>>
    /\ UNCHANGED notRenderVars

FeedbackNext ==
    \/ Mount
    \/ IframeAdded
    \/ RafCallback
    \/ ProbeSendsHeight
    \/ BoxObserved
    \/ SettleMeasuresDocument

\* A mounted instance showing one unchanging document.
InitFeedback ==
    /\ RenderInit /\ StoreInit /\ ActionInit /\ onUIActionProp /\ DetectIdle
    /\ content \in Contents /\ SandboxIdle /\ ArtifactIdle /\ FoldIdle /\ BlobIdle
    /\ ConfigIdle

SpecFeedback == InitFeedback /\ [][FeedbackNext]_vars

\* C14: with unchanging content the feedback loop does not grow without
\* end: the displayed height settles at a fixed point below HeightCap, which
\* is above every document's own height, every unstyled box and the
\* placeholder.
C14_NoRunawayGrowth == iframeHeight < HeightCap

\* Messages reaching a mounted instance whose iframe comes and goes.
MessageNext ==
    \/ Mount
    \/ IframeAdded
    \/ IframeRemoved
    \/ HandleMessage
    \/ RafCallback

\* A document whose height does not matter to the run.
LayoutIdle == content = [kind |-> "fixed", own |-> 0, margin |-> 0]

\* The renderer instance, with a host callback and no action under way.
Init ==
    /\ RenderInit /\ StoreInit /\ ActionInit /\ onUIActionProp
    /\ DetectIdle /\ LayoutIdle /\ SandboxIdle /\ ArtifactIdle /\ FoldIdle /\ BlobIdle
    /\ ConfigIdle

Next == RenderNext

Spec == Init /\ [][Next]_vars

\* The store alone.
SpecStore == Init /\ [][StoreNext]_vars

\* Action forwarding of a mounted instance, with or without a host callback.
InitAction ==
    /\ RenderInit /\ StoreInit /\ ActionInit
    /\ DetectIdle /\ LayoutIdle /\ SandboxIdle /\ ArtifactIdle /\ FoldIdle /\ BlobIdle
    /\ ConfigIdle

SpecAction == InitAction /\ [][ActionNext]_vars

\* detectMCPUIResource applied to each output of DetectCases.
InitDetect ==
    /\ RenderInit /\ resource = ResourceA
    /\ StoreInit /\ ActionInit /\ onUIActionProp
    /\ DetectInit /\ LayoutIdle /\ SandboxIdle /\ ArtifactIdle /\ FoldIdle /\ BlobIdle
    /\ ConfigIdle

SpecDetect == InitDetect /\ [][DetectNext]_vars

\* The uri of the resource of the value the output was made from, if it is
\* a string with the reserved scheme.
HasUiUri(val) ==
    LET uri == OptGet(OptGet(val, StrResource), StrUri)
    IN  uri.t = "str" /\ StartsWith(uri.s, UiScheme)

\* null, undefined, the empty string, text that is not JSON, JSON that is not
\* an object, and objects whose resource.uri is absent, not a string or not
\* under ui://.
NoReservedUri ==
    \/ detOrigin.k \in {"empty", "malformed"}
    \/ detOrigin.k = "json" /\ (detOrigin.v.t # "obj" \/ ~HasUiUri(detOrigin.v))

\* C9: detectMCPUIResource never throws, and on every output without a
\* ui:// resource uri it returns no match: isMCPResource false, no resource.
C9_DetectTotal ==
    detPc = "done" =>
        /\ ~detResult.threw
        /\ NoReservedUri => detResult = NoMatch

\* The call has returned no match on a resource envelope whose uri is a
\* number, where uri.startsWith is not a function.
C9_Witness ==
    /\ detPc = "done"
    /\ detOrigin.k = "json"
    /\ OptGet(detOrigin.v, StrType) = VStr(StrResource)
    /\ OptGet(OptGet(detOrigin.v, StrResource), StrUri).t = "num"
    /\ detResult = NoMatch

SupportedMimeTypes == {VStr(TextHtml), VStr(TextUriList), VStr(RemoteDom)}

\* A direct envelope: type "resource", uri under ui://, a supported
\* mimeType, text a non-empty string.
WellFormedEnvelope(val) ==
    /\ OptGet(val, StrType) = VStr(StrResource)
    /\ HasUiUri(val)
    /\ OptGet(OptGet(val, StrResource), StrMimeType) \in SupportedMimeTypes
    /\ OptGet(OptGet(val, StrResource), StrText).t = "str"
    /\ OptGet(OptGet(val, StrResource), StrText).s # <<>>

\* C10: on an output that parses as a JSON object the call returns a match
\* exactly when the object is a well-formed direct envelope, and the resource
\* returned is the resource object of the input, field for field.
C10_MatchExactlyWellFormed ==
    (detPc = "done" /\ detOrigin.k = "json" /\ detOrigin.v.t = "obj") =>
        /\ detResult.isMCPResource <=> WellFormedEnvelope(detOrigin.v)
        /\ detResult.isMCPResource =>
               detResult.resource = Some(Get(detOrigin.v, StrResource))

\* A uri under ui://, on the value itself or on its resource member.
EmittedUriOk(val) ==
    \/ Get(val, StrUri).t = "str" /\ StartsWith(Get(val, StrUri).s, UiScheme)
    \/ HasUiUri(val)

\* C13: every resource a detector emits has a uri under ui://.
C13_EmittedUriReserved ==
    /\ detResult.isMCPResource => EmittedUriOk(The(detResult.resource))
    /\ \A k \in 1..Len(extracted.artifacts) :
           EmittedUriOk(extracted.artifacts[k].mcpResource)

\* What the call returns on the JSON text of a value.
DetectOn(val) == DetectMCPUIResource([k |-> "string", toks |-> Tokens(val)])

\* C11: on a wrapped-text envelope {type:"text", text:<JSON text of a direct
\* envelope>} the call returns what it returns on the inner direct envelope.
C11_WrappedTextInvariance ==
    detPc = "done" =>
        \A e \in WrappedInner :
            (detOrigin.k = "json" /\ detOrigin.v = WrappedText(e)) => detResult = DetectOn(e)

\* What strategy 1 or 2 gives on one content item: the inner envelope's
\* result for a wrapped-text item, the item's own result otherwise.
ItemResult(item) ==
    IF \E e \in WrappedInner : item = WrappedText(e)
    THEN DetectOn(CHOOSE e \in WrappedInner : item = WrappedText(e))
    ELSE DetectOn(item)

RECURSIVE FirstMatch(_)
\* The result on the first item that matches, no match if none does.
FirstMatch(items) ==
    IF items = <<>> THEN NoMatch
    ELSE IF ItemResult(Head(items)[2]).isMCPResource THEN ItemResult(Head(items)[2])
    ELSE FirstMatch(Tail(items))

\* C12: on an output that parses to an array the call returns the resource of
\* the first item that is a direct or wrapped-text envelope, and no match
\* only if no item is one.
C12_ArrayFirstMatch ==
    (detPc = "done" /\ detOrigin.k = "json" /\ detOrigin.v.t = "arr") =>
        detResult = FirstMatch(detOrigin.v.m)

SpecMessage == Init /\ [][MessageNext]_vars

\* The iframes on the page, whichever component made them.
SpecSandbox == Init /\ [][SandboxNext]_vars

\* The store with one ui:// link in a rendered message.
SpecLink == Init /\ [][LinkNext]_vars

\* One instance's negotiator, fed one run of samples, frames falling anywhere.
InitFold ==
    /\ RenderInit /\ StoreInit /\ ActionInit /\ onUIActionProp = TRUE
    /\ DetectIdle /\ LayoutIdle /\ SandboxIdle /\ ArtifactIdle /\ FoldInit /\ BlobIdle
    /\ ConfigIdle

SpecFold == InitFold /\ [][FoldNext]_vars

\* The report the injected probe posts, lines 229-232:
\* {type: 'mcp-ui-height-update', height}.
ProbeReport ==
    \E source \in Sources, v \in SampleValues :
        HandleMessageFrom(source, [type |-> "mcp-ui-height-update", hasPayload |-> FALSE,
                                   where |-> "flat", height |-> [k |-> "num", v |-> v],
                                   alt |-> [k |-> "missing", v |-> 0]])

\* The renderer instance: what accepts samples (the probe's reports, the
\* box observer), what commits them, what clears the candidate (a change of
\* resource, unmount) and what writes the height past them (a failed
\* injection at load).
FramesNext ==
    \/ Mount
    \/ ChangeResource
    \/ Unmount
    \/ IframeAdded
    \/ Navigate
    \/ LoadEvent
    \/ ProbeReport
    \/ RafCallback
    \/ ResizeObserved

\* The renderer instance with rendering frames that keep coming: a requested
\* frame callback is run by the browser unless it is cancelled.
SpecFrames == Init /\ [][FramesNext]_vars /\ WF_vars(RafCallback)

\* ToolCallInfo views over the store; effects and renders are not put off
\* for ever.
SpecViews == Init /\ [][ViewNext]_vars /\ WF_vars(ViewEffect) /\ WF_vars(StoreRender)

\* One MCPUIRenderer of the chat message, from mount to unmount.
SpecBlob == Init /\ [][BlobNext]_vars

\* The /api/mcp route, serving requests in any order.
SpecConfig == Init /\ [][ConfigNext]_vars

\* One MCPUIArtifact, given one artifact after another.
SpecArtifact == Init /\ [][ArtifactNext]_vars

----------------------------------------------------------------------------
(* Properties of the renderer instance                                     *)

\* C1: within one mounted instance the displayed height never decreases:
\* every change of iframeHeight is to a strictly larger value, whatever the
\* samples and the load / injection outcomes are.
C1_HeightNeverDecreases ==
    [][phase = "mounted" /\ phase' = "mounted" => iframeHeight' >= iframeHeight]_vars

\* C2: when the mounted component is given a resource of another identity,
\* the displayed height is back at the placeholder minimum (150) once the
\* change is done; the previous resource's height does not carry over.
C2_ResetOnNewResource ==
    [][phase = "mounted" /\ resource' # resource => iframeHeight' = PlaceholderHeight]_vars

\* A message step whose source is not the contentWindow of a tracked iframe.
UntrackedMessageStep ==
    \E source \in Sources, data \in MessageData :
        /\ ~FromIframe(trackedIframesRef, dom, source)
        /\ HandleMessageFrom(source, data)

\* C4: a message whose source is not the window of a tracked iframe changes
\* neither the pending candidate nor the displayed height, also while the
\* instance tracks no iframe yet.
C4_UntrackedSourceDropped ==
    [][UntrackedMessageStep =>
          pendingHeightRef' = pendingHeightRef /\ iframeHeight' = iframeHeight]_vars

\* A step of a callback the instance registered.
CallbackStep ==
    HandleMessage \/ RafCallback \/ ResizeObserved \/ SettleMeasure \/ DelayedScan
        \/ LoadEvent

\* C6: after unmount no callback of the instance runs any more, and rafRef
\* and pendingHeightRef stay null.
C6_NothingRunsAfterUnmount ==
    [][phase = "unmounted" =>
          ~CallbackStep /\ rafRef' = Null /\ pendingHeightRef' = Null]_vars


\* A step in which the load event of a cross-origin document runs the load
\* handlers of a mounted instance: every attemptInjection fails on reading
\* the document.
FailedInjectionStep ==
    /\ phase = "mounted"
    /\ \E f \in SeqToSet(dom) :
        /\ ~docs[f].ready /\ docs[f].cross /\ docs'[f].ready
        /\ \E k \in 1..Len(loadHandlers) : loadHandlers[k][1] = f

\* C15: when injection fails because the document cannot be read, the
\* displayed height becomes the fallback of the instance's resource:
\* resource.height, else resource.metadata.height, else 600.
C15_FallbackOnDeniedRead ==
    [][FailedInjectionStep => iframeHeight' = FallbackHeight(resource)]_vars

\* C16: the displayed height starts at the placeholder 150 and is never
\* below it: it stays 150 until a sample is committed, and no sample, however
\* small, takes it under 150.
C16_PlaceholderMinimum ==
    phase # "unmounted" => iframeHeight >= PlaceholderHeight

\* Height reports as the probe and the library post them: one of the three
\* type aliases, a finite number, in payload.height or flat on the message.
WellFormedReports ==
    {d \in MessageData :
        /\ d.type \in HeightTypes /\ d.height.k = "num"
        /\ d.where = (IF d.hasPayload THEN "payload" ELSE "flat")}

\* C17: a height report from a tracked iframe, under any alias and in either
\* shape, is accepted whenever it arrives: the pending candidate becomes the
\* larger of the old candidate (0 if none) and the reported height, so it is
\* the same whichever alias and shape carried the height, and a commit is
\* requested.
C17_AliasesAccepted ==
    listening =>
        \A f \in Iframes, d \in WellFormedReports :
            FromIframe(trackedIframesRef, dom, f) =>
                /\ HandleMessageOn(Cur, dom, f, d).pending =
                       Some(Max(IF pendingHeightRef = Null THEN 0 ELSE The(pendingHeightRef),
                                d.height.v))
                /\ HandleMessageOn(Cur, dom, f, d).raf # Null

\* A report has been accepted: the candidate 0 comes only from a report of a
\* negative height, since a measurement of 0 is never scheduled.
C17_Witness ==
    /\ phase = "mounted" /\ trackedIframesRef # <<>>
    /\ pendingHeightRef = Some(0) /\ rafRef # Null

\* Tokens that let content navigate the top-level page or open windows.
EscapeTokens ==
    {"allow-top-navigation", "allow-top-navigation-by-user-activation",
     "allow-top-navigation-to-custom-protocols", "allow-popups",
     "allow-popups-to-escape-sandbox", "allow-modals", "allow-downloads"}

\* The sandboxes of the iframes now on the page.
LiveSandboxes ==
    {The(sandboxes[c]) : c \in {x \in IframeComponents : sandboxes[x] # Null}}
        \cup (IF dom # <<>> THEN {RendererSandbox} ELSE {})

PayloadUnparseable ==
    /\ artifact # Null
    /\ The(artifact).mcpResource = Absent
    /\ The(artifact).content.origin = "malformed"

\* C19: when the artifact's content fails to parse, the component shows its
\* error box and no iframe; and once in the error state it stays there while
\* mounted, whatever artifact it is given next: nothing is retried.
C19_ParseFailureShowsError ==
    /\ PayloadUnparseable => artError /\ ArtifactShows = "error"
    /\ artError => ArtifactShows = "error"

\* The component showed a resource, then was given an artifact whose
\* content does not parse.
C19_Witness ==
    PayloadUnparseable /\ artResource # Null /\ ArtifactShows = "error"

\* The queued updates that are adds under the uri.
MatchingAdds(uri) ==
    {i \in DOMAIN storeUpdates :
        storeUpdates[i].op = "add" /\ storeUpdates[i].resource.uri = uri}

\* Every queued update is an add under another uri.
OnlyOtherAdds(uri) ==
    \A i \in DOMAIN storeUpdates :
        storeUpdates[i].op = "add" /\ storeUpdates[i].resource.uri # uri

\* The last queued update is the add of a resource under the uri.
LastIsMatchingAdd(uri) ==
    /\ storeUpdates # <<>>
    /\ Len(storeUpdates) \in MatchingAdds(uri)

\* A plain link whose matching add is applied is rendered
\* once more and resolves getResource(href) to the added resource.
LinkResolvesOnMatchingAdd ==
    [][(/\ linkHref # Null /\ linkHref' = linkHref
        /\ linkResource = Null
        /\ storeUpdates' = <<>>
        /\ LastIsMatchingAdd(The(linkHref)))
       => /\ linkResource' = Some(storeUpdates[Len(storeUpdates)].resource)
          /\ linkNotified' = linkNotified + 1]_vars

\* C20: a ui:// link mounted before its resource arrived is notified once by
\* a matching add and then resolves getResource(href) to the added resource;
\* adds under other uris do not notify it.
C20_NotifiedByMatchingAddOnly ==
    [][(linkHref # Null /\ linkHref' = linkHref /\ linkResource = Null)
       => /\ (storeUpdates' = <<>> /\ LastIsMatchingAdd(The(linkHref)))
                => /\ linkResource' = Some(storeUpdates[Len(storeUpdates)].resource)
                   /\ linkNotified' = linkNotified + 1
          /\ (storeUpdates # <<>> /\ OnlyOtherAdds(The(linkHref)))
                => linkNotified' = linkNotified]_vars

\* The commit frame callback runs (the resource and the mounting stay).
CommitStep ==
    commitFrames' < commitFrames /\ phase' = phase /\ resource' = resource

\* What one run of the commit frame callback may leave: handle and candidate
\* cleared, the displayed height kept or set once, to the candidate's ceiling.
OneCommit ==
    /\ rafRef' = Null /\ pendingHeightRef' = Null /\ commitFrames' = 0
    /\ \/ iframeHeight' = iframeHeight
       \/ /\ pendingHeightRef # Null
          /\ iframeHeight' = Max(0, Ceil(The(pendingHeightRef)))

\* C21 as stated: at most one commit frame callback is outstanding, the
\* pending candidate equals the maximum of the samples that arrived since it
\* was cleared, and the frame callback commits at most once and clears the
\* candidate and the handle.
C21_CandidateIsSampleMaximum ==
    /\ [](/\ commitFrames <= 1
          /\ (commitFrames = 1) = (rafRef # Null)
          /\ pendingHeightRef # Null =>
                arrivedMax # Null /\ The(pendingHeightRef) = The(arrivedMax))
    /\ [][CommitStep => OneCommit]_vars

\* C21, amended: as C21, with the candidate equal to the maximum of 0 and
\* the samples that arrived since it was cleared (the fold starts from
\* pendingHeightRef.current ?? 0, so a frame of negative samples leaves 0).
C21_CoalescedPerFrame ==
    /\ [](/\ commitFrames <= 1
          /\ (commitFrames = 1) = (rafRef # Null)
          /\ pendingHeightRef # Null =>
                arrivedMax # Null /\ The(pendingHeightRef) = Max(0, The(arrivedMax)))
    /\ [][CommitStep => OneCommit]_vars

\* A frame callback is outstanding for a frame in which only a negative
\* sample arrived.
C21_Witness ==
    commitFrames = 1 /\ arrivedMax = Some(-1) /\ pendingHeightRef = Some(0)

RECURSIVE LargestOf(_)
LargestOf(run) ==
    IF Len(run) = 1 THEN run[1] ELSE Max(Head(run), LargestOf(Tail(run)))

\* Every sample of the run has arrived and has been committed.
AllCommitted == foldLeft = <<>> /\ fold.pending = Null /\ fold.frames = 0

C23_ActionsProcessedInOrder ==
    \A k, j \in 1..Len(calls) :
        (k < j /\ calls[k].via = "renderer" /\ calls[j].via = "renderer"
            /\ calls[j].invoked)
        => calls[k].state # "awaiting"

\* C24: while the component is mounted the only un-revoked blob url is the
\* iframe's src (every earlier one was revoked when the content changed, the
\* src itself is not revoked); after unmount no un-revoked url remains.
C24_BlobUrlsRevoked ==
    /\ blobPhase = "mounted" => iframeContent # Null /\ blobLive = iframeContent
    /\ blobPhase = "unmounted" => blobLive = {}

\* The content changed twice, then the component was unmounted.
C24_Witness ==
    blobPhase = "unmounted" /\ blobCreated = 3 /\ blobLive = {}

\* A sample of at least h was accepted for resource r and waits for its frame.
Accepted(h, r) ==
    /\ phase = "mounted" /\ resource = r
    /\ arrivedMax # Null /\ The(arrivedMax) >= h

\* The displayed height covers h, or the instance did not stay mounted with r.
ShownOrGone(h, r) ==
    iframeHeight >= Ceil(h) \/ phase # "mounted" \/ resource # r

\* C25: a pending candidate always has its frame callback requested, and
\* with frames that keep coming an accepted sample h is followed by a
\* displayed height of at least ceil(h) if the instance stays mounted with
\* the same resource.
C25_NoSampleLost ==
    /\ [](pendingHeightRef # Null => rafRef # Null /\ commitFrames > 0)
    /\ \A h \in SampleValues, r \in Resources : Accepted(h, r) ~> ShownOrGone(h, r)

\* The sample 700 was accepted while 150 was displayed, and was committed.
C25_Witness ==
    /\ phase = "mounted" /\ iframeHeight = 700
    /\ pendingHeightRef = Null /\ rafRef = Null /\ isLoaded

\* C26: however the effects of several views and the store's renders
\* interleave, addResource is called at most once per uri and the stored
\* value is the one added first.
C26_OverlappingDetectionsSafe ==
    \A u \in StoreUris :
        /\ addCalls[u] <= 1
        /\ (storeUpdates = <<>> /\ firstAdded[u] # Null) => resources[u] = firstAdded[u]

\* The mounted views whose output holds a resource under the uri.
Detecting(u) ==
    {v \in ToolCallViews :
        viewMounted[v] /\ viewResource[v] # Null /\ The(viewResource[v]).uri = u}

\* The store holds an entry for every uri a mounted view detected.
AllStored ==
    \A u \in StoreUris : Detecting(u) # {} => resources[u] # Null

\* No effect is due and no store update is queued.
Quiet ==
    storeUpdates = <<>> /\ \A v \in ToolCallViews : ~viewEffect[v]

\* C29: the detect-and-store loop ends: the effects call addResource at most
\* once per view, never once the store holds every detected uri, and with
\* effects and renders that are not put off for ever the views and the store
\* come to rest.
C29_DetectAndStoreTerminates ==
    /\ [](\A u \in StoreUris : addCalls[u] <= Cardinality(Detecting(u)))
    /\ [][AllStored => addCalls' = addCalls]_vars
    /\ <>[]Quiet

\* Three views, two uris, every effect run and every update applied.
C29_Witness ==
    /\ Quiet
    /\ \A v \in ToolCallViews : viewMounted[v]
    /\ \A u \in StoreUris : Detecting(u) # {} /\ resources[u] # Null


\* Messages that are not a height report: the type is none of the three
\* aliases, or the height the handler looks up (where payload points: the
\* height field, else the fallback fields) is missing, text, NaN or infinite.
NotHeightReports ==
    {d \in MessageData :
        \/ d.type \notin HeightTypes
        \/ LET seen == IF d.where = (IF d.hasPayload THEN "payload" ELSE "flat")
                        THEN d.height.k ELSE "missing"
           IN  \/ seen \in {"NaN", "Infinity", "string"}
               \/ seen = "missing" /\ d.alt.k # "num"}

\* C27: a message that is not an accepted height report leaves the
\* negotiator untouched: whenever the listener is attached and whatever
\* window sent it, handling a message whose type is not one of the three
\* height aliases, or whose height is missing, not a number, NaN or infinite,
\* leaves the pending candidate, the scheduled frame callback and the
\* displayed height as they were.
C27_NonReportsChangeNothing ==
    listening =>
        \A source \in Sources, d \in NotHeightReports :
            /\ HandleMessageOn(Cur, dom, source, d).pending = pendingHeightRef
            /\ HandleMessageOn(Cur, dom, source, d).raf = rafRef
            /\ HandleMessageOn(Cur, dom, source, d).frames = commitFrames
            /\ HandleMessageOn(Cur, dom, source, d).height = iframeHeight

\* The listener is attached with nothing tracked yet (every source passes
\* the source test) and nothing pending: a message that was accepted by
\* mistake would create a candidate and request a frame here.
C27_Witness ==
    /\ phase = "mounted" /\ listening /\ trackedIframesRef = <<>>
    /\ pendingHeightRef = Null /\ rafRef = Null
    /\ iframeHeight > PlaceholderHeight

\* C28: each iframe document carries at most one measurement-probe script,
\* however many times injection is attempted for it (the already-complete
\* check, load events, the mutation observer, the initial and the delayed
\* scan); an attempt on a document that already carries the marker changes
\* nothing, whichever resource the attempting closure captured.
C28_AtMostOneProbe ==
    \A f \in Iframes :
        /\ docs[f].probes <= 1
        /\ docs[f].probes > 0 =>
               \A r \in Resources : AttemptInjection(Cur, dom, f, r) = Cur

\* A complete document that carries the probe, in an iframe with two load
\* handlers attached and no delayed scan left to run: injectHeightDetector
\* ran for the iframe at least twice and found it complete.
C28_Witness ==
    /\ phase = "mounted" /\ delayedScans = {}
    /\ \E f \in SeqToSet(dom) :
           /\ docs[f].probes = 1 /\ docs[f].ready
           /\ Len(SelectSeq(loadHandlers, LAMBDA p : p[1] = f)) >= 2

\* C30: failed requests leave the server-configuration store unchanged.
\* Whatever the Map holds: a POST whose config lacks id, name or transport,
\* or whose test connection fails (as it does for every config that is not
\* enabled), a PUT with a missing or unknown id and a DELETE with a missing
\* or unknown id each answer with an error status and leave every stored
\* entry as it was; a PUT never creates (or removes) an entry, and the entry
\* under an id keeps that id.
C30_FailedRequestsChangeNothing ==
    /\ \A c \in ConfigValues, reachable \in BOOLEAN :
           \/ c.id = "" \/ c.name = "" \/ c.transport = ""
           \/ ~c.enabled \/ ~reachable
           => /\ PostHandler(serverConfigs, Some(c), reachable).store = serverConfigs
              /\ PostHandler(serverConfigs, Some(c), reachable).status \in {400, 500}
    /\ \A body \in PutBodies \ {Null} :
           LET u == The(body)
               r == PutHandler(serverConfigs, body)
           IN  /\ (u.id = Null \/ u.id = Some("") \/ serverConfigs[The(u.id)] = Null)
                      => r.store = serverConfigs /\ r.status \in {400, 404}
               /\ \A i \in ConfigIds :
                      /\ (r.store[i] = Null) <=> (serverConfigs[i] = Null)
                      /\ r.store[i] # Null => The(r.store[i]).id = i
    /\ \A id \in DeleteIds :
           (id = Null \/ id = Some("") \/ serverConfigs[The(id)] = Null)
               => /\ DeleteHandler(serverConfigs, id).store = serverConfigs
                  /\ DeleteHandler(serverConfigs, id).status \in {400, 404}

\* A request has just been refused (a PUT of an unknown id) by a store that
\* earlier requests have changed: 's1' is not stored, 'agentcore' was enabled.
C30_Witness ==
    /\ response = [op |-> "PUT", status |-> 404]
    /\ serverConfigs["s1"] = Null
    /\ serverConfigs["agentcore"] # Null /\ The(serverConfigs["agentcore"]).enabled
============================================================================
